---- MODULE Spec2Model ----
(***************************************************************************)
(* Model of the X4 data extraction tools (get_factions_info.py,            *)
(* map_get_names.py, wares_convert.py, get_ships_info.py).                   *)
(*                                                                         *)
(* Texts are sequences of one-character strings, so that the regular       *)
(* expressions of the code (reference tokens, parenthetical annotations)   *)
(* are modelled by what they match, character by character.                *)
(***************************************************************************)
EXTENDS Integers, Sequences, FiniteSets, TLC

VARIABLES
    text,            \* resolver: the text of the top-level resolve_placeholders call
    name_map,        \* the localization map: key -> value
    processed_keys,  \* resolver: the list shared by all nested calls of one top-level call
    stack,           \* resolver: the active resolve_placeholders calls, outermost first
    result,          \* resolver: the value returned by the most recent call that returned
    done,            \* resolver: the top-level call has returned
    log,             \* the diagnostics emitted through logger.warning / logger.error
    lookups,         \* resolver: number of name_map.get calls made so far
    tool,            \* the program that runs: "factions", "map", "wares"
    catalog,         \* loader: the localization document
    page_i,          \* loader: index of the page element being visited
    t_i,             \* loader: index of the t element being visited within the page
    lpc,             \* loader: "parse", "pages", "entries", "returned"; "idle" when not running
    args,            \* extractor: the parsed command line
    files,           \* extractor: the discovered source files
    exclude_patterns,\* extractor: the exclusion patterns
    out_dir,         \* extractor: the state of the output folder
    file_i,          \* extractor: index of the file being processed
    rec_i,           \* extractor: index of the element being visited within the file
    all_rows,        \* extractor: the rows collected so far
    csv,             \* extractor: the output file
    xpc,             \* extractor: "ensure", "files", "records", "returned", "raised"; "idle"
    min_price,       \* calculate_price_ranges: its first argument
    max_price,       \* calculate_price_ranges: its second argument
    ranges,          \* calculate_price_ranges: the dictionary it returns
    ppc,             \* calculate_price_ranges: "call", "returned"; "idle"
    cmdline,         \* main: what parse_args made of the command line
    layout,          \* main: the directories and files under the base folder
    mpc,             \* main: the statement main is at; "idle" when not running
    exit_code        \* main: the exit status of the process, -1 while it runs

resolverVars == <<text, processed_keys, stack, result, done, lookups>>

loaderVars == <<tool, catalog, page_i, t_i, lpc>>

extractorVars ==
    <<args, files, exclude_patterns, out_dir, file_i, rec_i, all_rows, csv, xpc>>

priceVars == <<min_price, max_price, ranges, ppc>>

mainVars == <<cmdline, layout, mpc, exit_code>>

vars == <<text, name_map, processed_keys, stack, result, done, log, lookups,
          tool, catalog, page_i, t_i, lpc,
          args, files, exclude_patterns, out_dir, file_i, rec_i, all_rows, csv, xpc,
          min_price, max_price, ranges, ppc,
          cmdline, layout, mpc, exit_code>>

\* no load_localization call is running
LoaderIdle ==
    /\ catalog = [ok |-> TRUE, pages |-> << >>]
    /\ page_i = 0
    /\ t_i = 0
    /\ lpc = "idle"

NoCsv == [written |-> FALSE, header |-> << >>, rows |-> << >>]

\* no extractor is running
ExtractorIdle ==
    /\ args = [folder |-> TRUE, exclude_macro_regex |-> << >>]
    /\ files = << >>
    /\ exclude_patterns = << >>
    /\ out_dir = "exists"
    /\ file_i = 0
    /\ rec_i = 0
    /\ all_rows = << >>
    /\ csv = NoCsv
    /\ xpc = "idle"

\* the keys of the dictionary calculate_price_ranges returns
RangeKeys == {"avg", "30_min", "30_max", "50_min", "50_max", "70_min", "70_max"}

NoRanges == [k \in RangeKeys |-> 0]

\* no calculate_price_ranges call is running as a process of its own
PriceIdle ==
    /\ min_price = << >>
    /\ max_price = << >>
    /\ ranges = NoRanges
    /\ ppc = "idle"

\* the file or directory entry that is absent
NoFile == [present |-> FALSE, ok |-> FALSE, records |-> << >>]

NoLayout ==
    [libraries |-> FALSE, original |-> NoFile, t |-> FALSE, loc |-> FALSE,
     extensions |-> [kind |-> "absent", entries |-> << >>]]

\* no main is running: the function under study was called directly
MainIdle ==
    /\ cmdline = "none"
    /\ layout = NoLayout
    /\ mpc = "idle"
    /\ exit_code = -1

\* no resolve_placeholders call is running as a process of its own
ResolverIdle ==
    /\ text = << >>
    /\ processed_keys = << >>
    /\ stack = << >>
    /\ result = << >>
    /\ done = FALSE
    /\ lookups = 0

(***************************************************************************)
(* Characters and character classes                                        *)
(***************************************************************************)

\* \d of the token pattern
Digits == {"0", "1", "2", "3", "4", "5", "6", "7", "8", "9"}

\* \s of the annotation pattern and the characters removed by str.strip()
Whitespace == {" ", "\t"}

IsDigit(c) == c \in Digits

IsSpace(c) == c \in Whitespace

\* the literal 'Unknown'
Unknown == <<"U", "n", "k", "n", "o", "w", "n">>

\* default of the max_depth parameter
DefaultMaxDepth == 10

(***************************************************************************)
(* The token pattern  \{(\d+),(\d+)\}                                      *)
(***************************************************************************)

RECURSIVE DigitsEnd(_, _)
\* index of the last character of the (greedy) run of digits that starts at i;
\* i - 1 when s[i] is no digit
DigitsEnd(s, i) ==
    IF i <= Len(s) /\ IsDigit(s[i]) THEN DigitsEnd(s, i + 1) ELSE i - 1

\* index of the closing brace of the token that starts at i, 0 when none does
MatchAt(s, i) ==
    IF i > Len(s) \/ s[i] # "{" THEN 0
    ELSE LET e1 == DigitsEnd(s, i + 1) IN
         IF e1 < i + 1 \/ e1 + 1 > Len(s) \/ s[e1 + 1] # "," THEN 0
         ELSE LET e2 == DigitsEnd(s, e1 + 2) IN
              IF e2 < e1 + 2 \/ e2 + 1 > Len(s) \/ s[e2 + 1] # "}" THEN 0
              ELSE e2 + 1

RECURSIVE NextMatch(_, _)
\* start of the leftmost token at or after position from, 0 when there is none
NextMatch(s, from) ==
    IF from > Len(s) THEN 0
    ELSE IF MatchAt(s, from) # 0 THEN from
    ELSE NextMatch(s, from + 1)

HasToken(s) == NextMatch(s, 1) # 0

\* key = f"{page_id}_{t_id}" of the token that starts at i
KeyOf(s, i) ==
    LET e1 == DigitsEnd(s, i + 1)
        e2 == DigitsEnd(s, e1 + 2)
    IN  SubSeq(s, i + 1, e1) \o <<"_">> \o SubSeq(s, e1 + 2, e2)

(***************************************************************************)
(* The annotation pattern  \s*\([^)]*\)  and str.strip()                   *)
(***************************************************************************)

RECURSIVE SpaceEnd(_, _)
\* index of the last character of the run of whitespace that starts at i
SpaceEnd(s, i) ==
    IF i <= Len(s) /\ IsSpace(s[i]) THEN SpaceEnd(s, i + 1) ELSE i - 1

RECURSIVE FirstClose(_, _)
\* index of the first ")" at or after j, 0 when there is none
FirstClose(s, j) ==
    IF j > Len(s) THEN 0
    ELSE IF s[j] = ")" THEN j
    ELSE FirstClose(s, j + 1)

\* mutant: the pattern lacks its leading \s*
AnnotEndNoSpace(s, i) ==
    IF s[i] = "(" THEN FirstClose(s, i + 1) ELSE 0

\* index of the ")" that ends the annotation match starting at i, 0 when none
AnnotEnd(s, i) ==
    LET j == SpaceEnd(s, i) + 1 IN
    IF j <= Len(s) /\ s[j] = "(" THEN FirstClose(s, j + 1) ELSE 0

RECURSIVE SubParens(_, _)
\* re.sub(r'\s*\([^)]*\)', '', s), scanning from position i
SubParens(s, i) ==
    IF i > Len(s) THEN <<>>
    ELSE LET e == AnnotEnd(s, i) IN
         IF e # 0 THEN SubParens(s, e + 1)
         ELSE <<s[i]>> \o SubParens(s, i + 1)

RECURSIVE LStrip(_)
LStrip(s) ==
    IF s # <<>> /\ IsSpace(s[1]) THEN LStrip(Tail(s)) ELSE s

RECURSIVE RStrip(_)
RStrip(s) ==
    IF s # <<>> /\ IsSpace(s[Len(s)]) THEN RStrip(SubSeq(s, 1, Len(s) - 1)) ELSE s

\* str.strip()
Strip(s) == RStrip(LStrip(s))

\* mutant: the result is not stripped of leading and trailing whitespace
StripAnnotationsNoStrip(s) == SubParens(s, 1)

\* resolved_text = re.sub(r'\s*\([^)]*\)', '', current_text).strip()
StripAnnotations(s) == Strip(SubParens(s, 1))

(***************************************************************************)
(* Inputs of the resolver: texts and localization maps                     *)
(***************************************************************************)

\* a text is built from at most MaxPieces pieces
MaxPieces == 2

\* the longest chain of references 1_1 -> {1,2}, 1_2 -> {1,3}, ... tried
MaxChain == 11

\* the reference token {page,t}
Tok(page, t) == <<"{">> \o page \o <<",">> \o t \o <<"}">>

Hello == <<"H", "e", "l", "l", "o">>

TextPieces ==
    { Tok(<<"1">>, <<"1">>), Tok(<<"1">>, <<"2">>), Tok(<<"9">>, <<"9">>),
      <<" ">>, <<"(">>, <<")">> }

RECURSIVE Concats(_, _)
\* the concatenations of at most n pieces of P
Concats(P, n) ==
    IF n = 0 THEN {<< >>}
    ELSE LET S == Concats(P, n - 1) IN S \cup {s \o p : s \in S, p \in P}

\* 'Name (extra info)', '{1,1} {1,1}', '{1(x),1}', '{1,{1,1}}', 'a (b) c) d',
\* '{1,1},2}', '{1{1,2}', '{1,1}A'
ExtraTexts ==
    { <<"N", "a", "m", "e", " ", "(", "e", "x", "t", "r", "a", " ", "i", "n", "f", "o", ")">>,
      Tok(<<"1">>, <<"1">>) \o <<" ">> \o Tok(<<"1">>, <<"1">>),
      <<"{", "1", "(", "x", ")", ",", "1", "}">>,
      <<"{", "1", ",">> \o Tok(<<"1">>, <<"1">>) \o <<"}">>,
      <<"a", " ", "(", "b", ")", " ", "c", ")", " ", "d">>,
      Tok(<<"1">>, <<"1">>) \o <<",", "2", "}">>,
      <<"{", "1">> \o Tok(<<"1">>, <<"2">>),
      Tok(<<"1">>, <<"1">>) \o <<"A">> }

Texts == Concats(TextPieces, MaxPieces) \cup ExtraTexts

\* the values a catalog entry may hold
Values ==
    { << >>, Hello, Unknown, <<"1">>,
      Tok(<<"1">>, <<"1">>), Tok(<<"1">>, <<"2">>),
      <<"x">> \o Tok(<<"1">>, <<"1">>),
      <<"A", " ", "(", "x", ")">>, <<" ", "A", " ">>,
      <<"A", " ", "(">> \o Tok(<<"1">>, <<"1">>) \o <<")">>,
      <<"{", "1">>, <<",", "2", "}">>, <<"(">>, <<")">> }

Key(page, t) == page \o <<"_">> \o t

SmallKeys == { Key(<<"1">>, <<"1">>), Key(<<"1">>, <<"2">>) }

DigitChar == <<"1", "2", "3", "4", "5", "6", "7", "8", "9">>

\* decimal digits of a number below 100
DigitStr(k) ==
    IF k = 0 THEN <<"0">>
    ELSE IF k < 10 THEN <<DigitChar[k]>>
    ELSE <<DigitChar[k \div 10]>> \o (IF k % 10 = 0 THEN <<"0">> ELSE <<DigitChar[k % 10]>>)

\* 1_1 -> '{1,2}', ..., 1_(n-1) -> '{1,n}', 1_n -> 'A'
ChainMap(n) ==
    LET keys == {Key(<<"1">>, DigitStr(k)) : k \in 1..n}
        num(key) == CHOOSE k \in 1..n : Key(<<"1">>, DigitStr(k)) = key
    IN  [key \in keys |->
            IF num(key) = n THEN <<"A">> ELSE Tok(<<"1">>, DigitStr(num(key) + 1))]

Maps ==
    UNION {[S -> Values] : S \in SUBSET SmallKeys}
        \cup {ChainMap(n) : n \in 3..MaxChain}

(***************************************************************************)
(* resolve_placeholders                                                    *)
(***************************************************************************)

\* the top-level call has no enclosing replacer
NoKey == << >>

\* one active call of resolve_placeholders:
\*   text, max_depth   its arguments
\*   depth             number of passes of the for loop started so far
\*   current_text      the loop's current text
\*   pos, new_text     pattern.sub in progress: next position to scan, output so far
\*   phase             "for": at the loop head; "sub": inside pattern.sub;
\*                     "call": inside replacer, waiting for the nested call;
\*                     "strip": after the loop
\*   key               local `key` of the replacer that made this call
NewCall(t, max_depth, key) ==
    [text |-> t, max_depth |-> max_depth, depth |-> 0, current_text |-> t,
     pos |-> 1, new_text |-> << >>, phase |-> "for", key |-> key]

Top == stack[Len(stack)]

SetTop(f) == [stack EXCEPT ![Len(stack)] = f]

Diag(kind, arg) == [kind |-> kind, arg |-> arg, level |-> Len(stack)]

\* key in processed_keys
InPath(key, path) == \E i \in 1..Len(path) : path[i] = key

\* list.pop()
Pop(path) == SubSeq(path, 1, Len(path) - 1)

\* name_map.get(key, 'Unknown')
Get(m, key) == IF key \in DOMAIN m THEN m[key] ELSE Unknown

\* `for depth in range(max_depth)` yields the next pass
ForNext ==
    /\ ~done /\ Top.phase = "for"
    /\ Top.depth < Top.max_depth
    /\ stack' = SetTop([Top EXCEPT !.depth = @ + 1, !.phase = "sub",
                                   !.pos = 1, !.new_text = << >>])
    /\ UNCHANGED <<text, name_map, processed_keys, result, done, log, lookups, loaderVars, extractorVars, priceVars, mainVars>>

\* the loop ran out without break: the else branch logs the warning
ForElse ==
    /\ ~done /\ Top.phase = "for"
    /\ Top.depth >= Top.max_depth
    /\ log' = Append(log, Diag("max_depth", Top.text))
    /\ stack' = SetTop([Top EXCEPT !.phase = "strip"])
    /\ UNCHANGED <<text, name_map, processed_keys, result, done, lookups, loaderVars, extractorVars, priceVars, mainVars>>

\* the literal text pattern.sub copies before the match at m
Before(f, m) == f.new_text \o SubSeq(f.current_text, f.pos, m - 1)

\* replacer: the key is on the current path
ReplacerCircular ==
    /\ ~done /\ Top.phase = "sub"
    /\ LET f == Top
           m == NextMatch(f.current_text, f.pos)
       IN  /\ m # 0
           /\ LET e == MatchAt(f.current_text, m)
                  key == KeyOf(f.current_text, m)
              IN  /\ InPath(key, processed_keys)
                  /\ log' = Append(log, Diag("circular", key))
                  /\ stack' = SetTop([f EXCEPT
                        !.new_text = Before(f, m) \o SubSeq(f.current_text, m, e),
                        !.pos = e + 1])
    /\ UNCHANGED <<text, name_map, processed_keys, result, done, lookups, loaderVars, extractorVars, priceVars, mainVars>>

\* mutant: the key is not popped on the missing-key exit
MissingPathNoPop(path, key) == Append(path, key)

\* the path after the replacer's append and pop around a missing key
MissingPath(path, key) == Pop(Append(path, key))

\* replacer: the lookup yields 'Unknown'
ReplacerMissing ==
    /\ ~done /\ Top.phase = "sub"
    /\ LET f == Top
           m == NextMatch(f.current_text, f.pos)
       IN  /\ m # 0
           /\ LET e == MatchAt(f.current_text, m)
                  key == KeyOf(f.current_text, m)
              IN  /\ ~InPath(key, processed_keys)
                  /\ Get(name_map, key) = Unknown
                  /\ log' = Append(log, Diag("missing", key))
                  /\ processed_keys' = MissingPath(processed_keys, key)
                  /\ stack' = SetTop([f EXCEPT
                        !.new_text = Before(f, m) \o Unknown,
                        !.pos = e + 1])
    /\ lookups' = lookups + 1
    /\ UNCHANGED <<text, name_map, result, done, loaderVars, extractorVars, priceVars, mainVars>>

\* mutant: the nested call is made with the same max_depth
NestedDepthSame(max_depth) == max_depth

\* the max_depth argument of the nested call
NestedDepth(max_depth) == max_depth - 1

\* mutant: the key is not recorded on the path
PushKeySkipped(path, key) == path

\* processed_keys.append(key) before the lookup
PushKey(path, key) == Append(path, key)

\* replacer: the lookup yields a value, which is resolved by a nested call
ReplacerRecurse ==
    /\ ~done /\ Top.phase = "sub"
    /\ LET f == Top
           m == NextMatch(f.current_text, f.pos)
       IN  /\ m # 0
           /\ LET e == MatchAt(f.current_text, m)
                  key == KeyOf(f.current_text, m)
              IN  /\ ~InPath(key, processed_keys)
                  /\ Get(name_map, key) # Unknown
                  /\ processed_keys' = PushKey(processed_keys, key)
                  /\ stack' = Append(
                        SetTop([f EXCEPT !.new_text = Before(f, m),
                                         !.pos = e + 1, !.phase = "call"]),
                        NewCall(Get(name_map, key), NestedDepth(f.max_depth), key))
    /\ lookups' = lookups + 1
    /\ UNCHANGED <<text, name_map, result, done, log, loaderVars, extractorVars, priceVars, mainVars>>

\* mutant: the text after the last token is lost
SubResultNoTail(f) == f.new_text

\* the text pattern.sub returns once no token is left to scan
SubResult(f) == f.new_text \o SubSeq(f.current_text, f.pos, Len(f.current_text))

\* the pass changed nothing: break
PassUnchanged ==
    /\ ~done /\ Top.phase = "sub"
    /\ NextMatch(Top.current_text, Top.pos) = 0
    /\ SubResult(Top) = Top.current_text
    /\ stack' = SetTop([Top EXCEPT !.phase = "strip"])
    /\ UNCHANGED <<text, name_map, processed_keys, result, done, log, lookups, loaderVars, extractorVars, priceVars, mainVars>>

\* the pass changed the text: current_text = new_text, next iteration
PassChanged ==
    /\ ~done /\ Top.phase = "sub"
    /\ NextMatch(Top.current_text, Top.pos) = 0
    /\ SubResult(Top) # Top.current_text
    /\ stack' = SetTop([Top EXCEPT !.current_text = SubResult(Top), !.phase = "for"])
    /\ UNCHANGED <<text, name_map, processed_keys, result, done, log, lookups, loaderVars, extractorVars, priceVars, mainVars>>

\* mutant: the key stays on the path after its expansion
PopKeySkipped(path) == path

\* processed_keys.pop() after the nested call
PopKey(path) == Pop(path)

\* a nested call returns into its replacer, which pops the key and returns
\* the replacement to pattern.sub
ReturnNested ==
    /\ ~done /\ Top.phase = "strip"
    /\ Len(stack) > 1
    /\ LET caller == stack[Len(stack) - 1]
           replacement == StripAnnotations(Top.current_text)
       IN  stack' = [Pop(stack) EXCEPT ![Len(stack) - 1] =
                        [caller EXCEPT !.new_text = @ \o replacement, !.phase = "sub"]]
    /\ result' = StripAnnotations(Top.current_text)
    /\ processed_keys' = PopKey(processed_keys)
    /\ UNCHANGED <<text, name_map, done, log, lookups, loaderVars, extractorVars, priceVars, mainVars>>

\* the top-level call returns resolved_text
ReturnTop ==
    /\ ~done /\ Top.phase = "strip"
    /\ Len(stack) = 1
    /\ result' = StripAnnotations(Top.current_text)
    /\ stack' = << >>
    /\ done' = TRUE
    /\ UNCHANGED <<text, name_map, processed_keys, log, lookups, loaderVars, extractorVars, priceVars, mainVars>>

\* a caller invokes resolve_placeholders(text, name_map): processed_keys is None,
\* max_depth takes its default
Init ==
    /\ text \in Texts
    /\ name_map \in Maps
    /\ processed_keys = << >>
    /\ stack = <<NewCall(text, DefaultMaxDepth, NoKey)>>
    /\ result = << >>
    /\ done = FALSE
    /\ log = << >>
    /\ lookups = 0
    /\ tool = "factions"
    /\ LoaderIdle
    /\ ExtractorIdle
    /\ PriceIdle
    /\ MainIdle

Next ==
    \/ ForNext
    \/ ForElse
    \/ ReplacerCircular
    \/ ReplacerMissing
    \/ ReplacerRecurse
    \/ PassUnchanged
    \/ PassChanged
    \/ ReturnNested
    \/ ReturnTop

Spec == Init /\ [][Next]_vars

(***************************************************************************)
(* load_localization (get_factions_info.py, map_get_names.py,              *)
(* wares_convert.py)                                                       *)
(*                                                                         *)
(* A catalog is the parsed localization document: whether ET.parse         *)
(* succeeded and, in document order, the page elements with their t        *)
(* elements.  An attribute or a text that is absent is None in the code;   *)
(* None is modelled by a value that no text equals.  The log records       *)
(* warnings and errors only.                                               *)
(***************************************************************************)

None == <<"None">>

\* `not x` for an attribute or a text: None and '' are falsy
Falsy(x) == x = None \/ x = << >>

MaxItems == 3

PageIds == {None, << >>, <<"1">>}

TIds == {None, <<"1">>, <<"2">>}

Payloads == {None, <<"A">>, <<" ", "B", " ">>}

PageItems == {[tag |-> "page", id |-> p, text |-> None] : p \in PageIds}

TItems == {[tag |-> "t", id |-> i, text |-> x] : i \in TIds, x \in Payloads}

\* the documents of up to MaxItems elements: a page, then pages and t elements
RECURSIVE Documents(_)

Documents(n) ==
    IF n = 0 THEN {<< >>}
    ELSE LET S == Documents(n - 1)
         IN  S \cup {Append(d, e) : d \in {x \in S : Len(x) = n - 1},
                                    e \in IF n = 1 THEN PageItems
                                          ELSE PageItems \cup TItems}

\* root.findall('.//page') with, for each page, page.findall('.//t')
RECURSIVE PagesOf(_)

PagesOf(d) ==
    IF d = << >> THEN << >>
    ELSE LET front == PagesOf(SubSeq(d, 1, Len(d) - 1))
             e == d[Len(d)]
         IN  IF e.tag = "page"
             THEN Append(front, [id |-> e.id, entries |-> << >>])
             ELSE [front EXCEPT ![Len(front)].entries =
                       Append(@, [id |-> e.id, text |-> e.text])]

Catalogs ==
    {[ok |-> FALSE, pages |-> << >>]}
        \cup {[ok |-> TRUE, pages |-> PagesOf(d)] : d \in Documents(MaxItems)}

Tools == {"factions", "map", "wares"}

\* the value the tool stores for a t element whose text is t_text
StoredValue(tl, t_text) ==
    CASE tl = "factions" -> IF Falsy(t_text) THEN << >> ELSE t_text
      [] tl = "map"      -> IF Falsy(t_text) THEN << >> ELSE Strip(t_text)
      [] tl = "wares"    -> t_text

\* name_map[key] = value
Store(m, key, value) ==
    [k \in DOMAIN m \cup {key} |-> IF k = key THEN value ELSE m[k]]

CurPage == catalog.pages[page_i]

CurT == CurPage.entries[t_i]

\* ET.parse raises: the error is logged and {} is returned
LoadParseError ==
    /\ lpc = "parse"
    /\ ~catalog.ok
    /\ log' = Append(log, [kind |-> "load_error", arg |-> << >>, level |-> 0])
    /\ name_map' = << >>
    /\ lpc' = "returned"
    /\ UNCHANGED <<tool, catalog, page_i, t_i, resolverVars, extractorVars, priceVars, mainVars>>

\* ET.parse succeeds: the loop over the pages starts
LoadParsed ==
    /\ lpc = "parse"
    /\ catalog.ok
    /\ lpc' = "pages"
    /\ page_i' = 1
    /\ UNCHANGED <<tool, catalog, t_i, name_map, log, resolverVars, extractorVars, priceVars, mainVars>>

\* `if not page_id: continue`
LoadSkipPage ==
    /\ lpc = "pages"
    /\ page_i <= Len(catalog.pages)
    /\ Falsy(CurPage.id)
    /\ page_i' = page_i + 1
    /\ UNCHANGED <<tool, catalog, t_i, lpc, name_map, log, resolverVars, extractorVars, priceVars, mainVars>>

\* a page with an id: the loop over its t elements starts
LoadEnterPage ==
    /\ lpc = "pages"
    /\ page_i <= Len(catalog.pages)
    /\ ~Falsy(CurPage.id)
    /\ lpc' = "entries"
    /\ t_i' = 1
    /\ UNCHANGED <<tool, catalog, page_i, name_map, log, resolverVars, extractorVars, priceVars, mainVars>>

\* `if t_id:` holds: the entry is stored under page_id + '_' + t_id
LoadEntry ==
    /\ lpc = "entries"
    /\ t_i <= Len(CurPage.entries)
    /\ ~Falsy(CurT.id)
    /\ name_map' = Store(name_map, Key(CurPage.id, CurT.id),
                         StoredValue(tool, CurT.text))
    /\ t_i' = t_i + 1
    /\ UNCHANGED <<tool, catalog, page_i, lpc, log, resolverVars, extractorVars, priceVars, mainVars>>

\* `if t_id:` fails: the entry is passed over
LoadSkipEntry ==
    /\ lpc = "entries"
    /\ t_i <= Len(CurPage.entries)
    /\ Falsy(CurT.id)
    /\ t_i' = t_i + 1
    /\ UNCHANGED <<tool, catalog, page_i, lpc, name_map, log, resolverVars, extractorVars, priceVars, mainVars>>

\* the t elements of the page are exhausted
LoadNextPage ==
    /\ lpc = "entries"
    /\ t_i > Len(CurPage.entries)
    /\ lpc' = "pages"
    /\ page_i' = page_i + 1
    /\ UNCHANGED <<tool, catalog, t_i, name_map, log, resolverVars, extractorVars, priceVars, mainVars>>

\* the pages are exhausted: `return name_map`
LoadReturn ==
    /\ lpc = "pages"
    /\ page_i > Len(catalog.pages)
    /\ lpc' = "returned"
    /\ UNCHANGED <<tool, catalog, page_i, t_i, name_map, log, resolverVars, extractorVars, priceVars, mainVars>>

\* a tool calls load_localization(loc_path)
LoadInit ==
    /\ tool \in Tools
    /\ catalog \in Catalogs
    /\ name_map = << >>
    /\ page_i = 0
    /\ t_i = 0
    /\ lpc = "parse"
    /\ log = << >>
    /\ ResolverIdle
    /\ ExtractorIdle
    /\ PriceIdle
    /\ MainIdle

LoadNext ==
    \/ LoadParseError
    \/ LoadParsed
    \/ LoadSkipPage
    \/ LoadEnterPage
    \/ LoadEntry
    \/ LoadSkipEntry
    \/ LoadNextPage
    \/ LoadReturn

LoadSpec == LoadInit /\ [][LoadNext]_vars

(***************************************************************************)
(* resolve_placeholders as a function: the text a call returns and the     *)
(* diagnostics it logs, for the callers that use it as one step.  name_map *)
(* is the map of the current state; level is the nesting of the call.      *)
(***************************************************************************)

Outcome(out, lg) == [out |-> out, log |-> lg]

DiagAt(kind, arg, level) == [kind |-> kind, arg |-> arg, level |-> level]

RECURSIVE RunCall(_, _, _, _)
RECURSIVE RunSub(_, _, _, _, _)
RECURSIVE RunPasses(_, _, _, _, _, _)

\* replacer(match) for the token of cur that starts at i
RunReplacer(cur, i, path, max_depth, level) ==
    LET key == KeyOf(cur, i)
    IN  IF InPath(key, path)
        THEN Outcome(SubSeq(cur, i, MatchAt(cur, i)),
                     <<DiagAt("circular", key, level)>>)
        ELSE IF Get(name_map, key) = Unknown
        THEN Outcome(Unknown, <<DiagAt("missing", key, level)>>)
        ELSE RunCall(Get(name_map, key), Append(path, key),
                     NestedDepth(max_depth), level + 1)

\* pattern.sub(replacer, cur), from position from on
RunSub(cur, from, path, max_depth, level) ==
    LET i == NextMatch(cur, from)
    IN  IF i = 0
        THEN Outcome(SubSeq(cur, from, Len(cur)), << >>)
        ELSE LET rep == RunReplacer(cur, i, path, max_depth, level)
                 rest == RunSub(cur, MatchAt(cur, i) + 1, path, max_depth, level)
             IN  Outcome(SubSeq(cur, from, i - 1) \o rep.out \o rest.out,
                         rep.log \o rest.log)

\* the passes of `for depth in range(max_depth)` that remain, and its else
RunPasses(t, cur, remaining, path, max_depth, level) ==
    IF remaining <= 0
    THEN Outcome(cur, <<DiagAt("max_depth", t, level)>>)
    ELSE LET pass == RunSub(cur, 1, path, max_depth, level)
         IN  IF pass.out = cur
             THEN Outcome(cur, pass.log)
             ELSE LET later == RunPasses(t, pass.out, remaining - 1, path,
                                         max_depth, level)
                  IN  Outcome(later.out, pass.log \o later.log)

RunCall(t, path, max_depth, level) ==
    LET looped == RunPasses(t, t, max_depth, path, max_depth, level)
    IN  Outcome(StripAnnotations(looped.out), looped.log)

\* resolve_placeholders(t, name_map) as the extractors call it
Resolved(t) == RunCall(t, << >>, DefaultMaxDepth, 1)

(***************************************************************************)
(* The faction and map-sector extractors: helpers                          *)
(***************************************************************************)

\* element.get(attr, ''): the empty string for an absent attribute
Attr(x) == IF x = None THEN << >> ELSE x

\* int(digits) for a run of digits
RECURSIVE IntOf(_)

IntOf(s) ==
    IF s = << >> THEN 0
    ELSE 10 * IntOf(SubSeq(s, 1, Len(s) - 1))
            + (CHOOSE k \in 0..9 : DigitStr(k) = <<s[Len(s)]>>)

\* str(n) for n >= 0
RECURSIVE Decimal(_)

Decimal(n) ==
    IF n < 10 THEN DigitStr(n) ELSE Decimal(n \div 10) \o DigitStr(n % 10)

\* int(s) and its str(): surrounding whitespace and one sign are accepted
PyInt(s) ==
    LET t == Strip(s)
        signed == t # << >> /\ t[1] \in {"+", "-"}
        body == IF signed THEN Tail(t) ELSE t
        ok == body # << >> /\ \A i \in 1..Len(body) : IsDigit(body[i])
    IN  [ok |-> ok,
         str |-> IF ~ok THEN << >>
                 ELSE (IF signed /\ t[1] = "-" /\ IntOf(body) # 0
                       THEN <<"-">> ELSE << >>) \o Decimal(IntOf(body))]

\* name_ref.strip('{}')
RECURSIVE StripBraces(_)

StripBraces(s) ==
    IF s # << >> /\ s[1] \in {"{", "}"} THEN StripBraces(Tail(s))
    ELSE IF s # << >> /\ s[Len(s)] \in {"{", "}"}
    THEN StripBraces(SubSeq(s, 1, Len(s) - 1))
    ELSE s

\* s.split(',')
RECURSIVE SplitComma(_)

SplitComma(s) ==
    IF \A i \in 1..Len(s) : s[i] # "," THEN <<s>>
    ELSE LET i == CHOOSE j \in 1..Len(s) :
                      s[j] = "," /\ \A k \in 1..(j - 1) : s[k] # ","
         IN  <<SubSeq(s, 1, i - 1)>> \o SplitComma(SubSeq(s, i + 1, Len(s)))

\* the key page_t of a reference like {20201,401}; None when it is no such reference
parse_name_reference(name_ref) ==
    IF Falsy(name_ref) THEN None
    ELSE LET parts == SplitComma(StripBraces(name_ref))
         IN  IF Len(parts) # 2 THEN None
             ELSE IF ~PyInt(parts[1]).ok \/ ~PyInt(parts[2]).ok THEN None
             ELSE Key(PyInt(parts[1]).str, PyInt(parts[2]).str)

\* re.findall(r'\d+', s), scanning from position i
RECURSIVE DigitRuns(_, _)

DigitRuns(s, i) ==
    IF i > Len(s) THEN << >>
    ELSE IF IsDigit(s[i])
    THEN <<SubSeq(s, i, DigitsEnd(s, i))>> \o DigitRuns(s, DigitsEnd(s, i) + 1)
    ELSE DigitRuns(s, i + 1)

\* (cluster_id, sector_id, type); warn when the warning is logged
extract_cluster_sector(macro) ==
    LET numbers == DigitRuns(macro, 1)
    IN  IF Len(numbers) >= 2
        THEN [cluster_id |-> IntOf(numbers[1]), sector_id |-> IntOf(numbers[2]),
              type |-> "sector", warn |-> FALSE]
        ELSE IF Len(numbers) = 1
        THEN [cluster_id |-> IntOf(numbers[1]), sector_id |-> 0,
              type |-> "cluster", warn |-> FALSE]
        ELSE [cluster_id |-> 0, sector_id |-> 0, type |-> "unknown", warn |-> TRUE]

\* re.match(pattern, s) with the pattern read from position i and the text
\* from position j, for patterns made of '^' and literal characters
RECURSIVE MatchFrom(_, _, _, _)

MatchFrom(pattern, i, s, j) ==
    IF i > Len(pattern) THEN TRUE
    ELSE IF pattern[i] = "^" THEN j = 1 /\ MatchFrom(pattern, i + 1, s, j)
    ELSE j <= Len(s) /\ s[j] = pattern[i] /\ MatchFrom(pattern, i + 1, s, j + 1)

\* mutant: re.search, the pattern may match anywhere in the text
ReSearch(pattern, s) ==
    \E j \in 1..(Len(s) + 1) : MatchFrom(pattern, 1, s, j)

\* re.match(pattern, s)
ReMatch(pattern, s) == MatchFrom(pattern, 1, s, 1)

\* any(re.match(pattern, macro) for pattern in exclude_patterns)
Excluded(macro, patterns) ==
    \E i \in 1..Len(patterns) : ReMatch(patterns[i], macro)

\* all_rows.sort(key=lambda x: (x[0], x[1])): a stable sort
RowLE(a, b) ==
    \/ a.cluster_id < b.cluster_id
    \/ a.cluster_id = b.cluster_id /\ a.sector_id <= b.sector_id

\* mutant: the sort is not stable, a row goes before the rows of equal key
RECURSIVE SortRowsUnstable(_)

SortRowsUnstable(rows) ==
    IF rows = << >> THEN << >>
    ELSE LET front == SortRowsUnstable(SubSeq(rows, 1, Len(rows) - 1))
             r == rows[Len(rows)]
             n == Cardinality({i \in 1..Len(front) : ~RowLE(r, front[i])})
         IN  SubSeq(front, 1, n) \o <<r>> \o SubSeq(front, n + 1, Len(front))

RECURSIVE SortRows(_)

SortRows(rows) ==
    IF rows = << >> THEN << >>
    ELSE LET front == SortRows(SubSeq(rows, 1, Len(rows) - 1))
             r == rows[Len(rows)]
             n == Cardinality({i \in 1..Len(front) : RowLE(front[i], r)})
         IN  SubSeq(front, 1, n) \o <<r>> \o SubSeq(front, n + 1, Len(front))

(***************************************************************************)
(* Floating-point numbers                                                  *)
(*                                                                         *)
(* Python floats are binary floating-point numbers: a result is rounded to *)
(* the nearest number of the format (ties to the even significand), a      *)
(* result beyond the largest finite number is inf, and the smallest        *)
(* numbers are multiples of one quantum.  The model keeps these rules in a *)
(* format with a short significand; a number is the integer count of       *)
(* quanta it holds.                                                        *)
(***************************************************************************)

\* bits of the significand
SignificandBits == 6

\* one quantum is 2^-QuantumBits
QuantumBits == 6

\* the largest exponent: a finite number is m * 2^k quanta with
\* m < 2^SignificandBits and k <= MaxBinade
MaxBinade == 7

RECURSIVE Pow2(_)
Pow2(n) == IF n = 0 THEN 1 ELSE 2 * Pow2(n - 1)

\* the largest finite number
MaxFinite == (Pow2(SignificandBits) - 1) * Pow2(MaxBinade)

\* inf, larger than every finite number
Inf == 2 * Pow2(SignificandBits) * Pow2(MaxBinade)

One == Pow2(QuantumBits)

RECURSIVE Binade(_, _, _)
\* the exponent at which n / d quanta has at most SignificandBits bits
Binade(n, d, k) ==
    IF n < d * Pow2(k) * Pow2(SignificandBits) THEN k ELSE Binade(n, d, k + 1)

\* n / d quanta (n >= 0, d > 0) rounded to the format
RoundRatio(n, d) ==
    LET k == Binade(n, d, 0)
        u == d * Pow2(k)
        q == n \div u
        r == n % u
        m == IF 2 * r > u \/ (2 * r = u /\ q % 2 = 1) THEN q + 1 ELSE q
    IN  IF m * Pow2(k) > MaxFinite THEN Inf ELSE m * Pow2(k)

FRound(n, d) == IF n >= 0 THEN RoundRatio(n, d) ELSE 0 - RoundRatio(0 - n, d)

IsInf(a) == a = Inf \/ a = 0 - Inf

\* a + b, a - b, a * b and a / 2 of floats; inf - inf does not arise here
FAdd(a, b) ==
    IF IsInf(a) THEN a ELSE IF IsInf(b) THEN b ELSE FRound(a + b, 1)

FSub(a, b) == FAdd(a, 0 - b)

FMul(a, b) ==
    IF IsInf(a) \/ IsInf(b)
    THEN (IF (a < 0) = (b < 0) THEN Inf ELSE 0 - Inf)
    ELSE FRound(a * b, One)

FHalf(a) == IF IsInf(a) THEN a ELSE FRound(a, 2)

\* the float of a decimal literal n / 100 of the source text
Hundredths(n) == FRound(n * One, 100)

\* float(s) of a string of digits
Float(s) == FRound(IntOf(s) * One, 1)

\* bound_price of calculate_price_ranges
bound_price(price, lo, hi) ==
    IF price < lo THEN lo
    ELSE IF price > hi THEN hi
    ELSE price

\* calculate_price_ranges(min_price, max_price) on two strings of digits
calculate_price_ranges(lo_str, hi_str) ==
    LET lo == Float(lo_str)
        hi == Float(hi_str)
        avg_price == FHalf(FAdd(lo, hi))
        half_range == FHalf(FSub(hi, lo))
        low(p) == bound_price(FSub(avg_price, FMul(Hundredths(p), half_range)), lo, hi)
        high(p) == bound_price(FAdd(avg_price, FMul(Hundredths(p), half_range)), lo, hi)
    IN  [k \in RangeKeys |->
            CASE k = "avg" -> avg_price
              [] k = "30_min" -> low(30)
              [] k = "30_max" -> high(30)
              [] k = "50_min" -> low(50)
              [] k = "50_max" -> high(50)
              [] k = "70_min" -> low(70)
              [] k = "70_max" -> high(70)]

\* the price attributes: strings of one or two digits
PriceStrings == {<<a>> : a \in Digits} \cup {<<a, b>> : a \in Digits, b \in Digits}

\* a call of calculate_price_ranges returns
CalculatePriceRanges ==
    /\ ppc = "call"
    /\ ranges' = calculate_price_ranges(min_price, max_price)
    /\ ppc' = "returned"
    /\ UNCHANGED <<min_price, max_price, name_map, log, resolverVars,
                   loaderVars, extractorVars, mainVars>>

\* process_all_wares calls calculate_price_ranges(min_price, max_price)
PriceInit ==
    /\ min_price \in PriceStrings
    /\ max_price \in PriceStrings
    /\ ranges = NoRanges
    /\ ppc = "call"
    /\ name_map = << >>
    /\ log = << >>
    /\ tool = "wares"
    /\ ResolverIdle
    /\ LoaderIdle
    /\ ExtractorIdle
    /\ MainIdle

PriceNext == CalculatePriceRanges

PriceSpec == PriceInit /\ [][PriceNext]_vars

(***************************************************************************)
(* The faction and map-sector extractors: inputs                           *)
(***************************************************************************)

\* DEFAULT_EXCLUDE_PATTERNS = [r'^timelines_map_', r'^demo_']
DEFAULT_EXCLUDE_PATTERNS ==
    << <<"^", "t", "i", "m", "e", "l", "i", "n", "e", "s", "_", "m", "a", "p", "_">>,
       <<"^", "d", "e", "m", "o", "_">> >>

\* the values of --exclude-macro-regex: the default, ['^id_demo_'],
\* [' ^id_alpha', 'alpha'] and []
RegexArgs ==
    { DEFAULT_EXCLUDE_PATTERNS,
      << <<"^", "i", "d", "_", "d", "e", "m", "o", "_">> >>,
      << <<" ", "^", "i", "d", "_", "a", "l", "p", "h", "a">>,
         <<"a", "l", "p", "h", "a">> >>,
      << >> }

\* the command line: whether the folder argument is given, and the patterns
ArgsSet ==
    {[folder |-> TRUE, exclude_macro_regex |-> r] : r \in RegexArgs}
        \cup {[folder |-> FALSE, exclude_macro_regex |-> << <<"^", "i", "d", "_", "d", "e", "m", "o", "_">> >>]}

\* get_base_folder: the exclusion patterns handed to the extractor
get_base_folder(tl, a) ==
    IF ~a.folder THEN DEFAULT_EXCLUDE_PATTERNS
    ELSE IF tl = "factions"
    THEN [i \in 1..Len(a.exclude_macro_regex) |-> Strip(a.exclude_macro_regex[i])]
    ELSE a.exclude_macro_regex

demo_alpha == <<"d", "e", "m", "o", "_", "a", "l", "p", "h", "a">>

alpha_demo == <<"a", "l", "p", "h", "a", "_", "d", "e", "m", "o">>

\* the localization map of the extractor runs: 1_1 -> 'A (x)', 1_2 -> '{1,1}'
ExtractMap ==
    [k \in {Key(<<"1">>, <<"1">>), Key(<<"1">>, <<"2">>)} |->
        IF k = Key(<<"1">>, <<"1">>) THEN <<"A", " ", "(", "x", ")">>
        ELSE Tok(<<"1">>, <<"1">>)]

Faction(id, name, shortname) ==
    [tag |-> "faction", id |-> id, name |-> name, shortname |-> shortname,
     prefixname |-> None, spacename |-> Tok(<<"9">>, <<"9">>),
     homespacename |-> None, primaryrace |-> <<"x">>]

\* the faction elements of the inputs
Factions ==
    {Faction(id, Tok(<<"1">>, <<"1">>), Tok(<<"1">>, <<"2">>)) :
        id \in {None, <<" ">>, <<" ">> \o demo_alpha, alpha_demo}}
        \cup {Faction(alpha_demo, None, None)}

\* dataset.find('.//identification'): absent, or present with its name attribute
NoIdentification == [present |-> FALSE, name |-> None]

Identification(name) == [present |-> TRUE, name |-> name]

Dataset(macro, identification) ==
    [tag |-> "dataset", macro |-> macro, identification |-> identification]

\* the dataset elements of the inputs
Datasets ==
    {Dataset(m, Identification(Tok(<<"1">>, <<"1">>))) : m \in {None, demo_alpha, alpha_demo}}
        \cup {Dataset(<<" ", "c", "2", "s", "1", " ">>,
                      Identification(<<" ", "{", "0", "1", ",", "1", "}", " ">>))}
        \cup {Dataset(alpha_demo, i) :
                  i \in {NoIdentification, Identification(None), Identification(<<"x">>)}}
        \cup {Dataset(demo_alpha, NoIdentification)}
        \cup {Dataset(<<"c", "1", "0">>, Identification(Tok(<<"1">>, <<"2">>)))}

\* the start of a source file; ok: ET.parse succeeds
FileItems == {[tag |-> "file", ok |-> b] : b \in BOOLEAN}

MaxElements == 4

\* the inputs of up to MaxElements items: a file, then files and elements
RECURSIVE Inputs(_, _)

Inputs(elements, n) ==
    IF n = 0 THEN {<< >>}
    ELSE LET S == Inputs(elements, n - 1)
         IN  S \cup {Append(d, e) : d \in {x \in S : Len(x) = n - 1},
                                    e \in IF n = 1 THEN FileItems
                                          ELSE FileItems \cup elements}

\* the source of the k-th discovered file
SourceOf(k) == IF k = 1 THEN "original" ELSE <<"ext1", "ext2", "ext3", "ext4">>[k - 1]

\* the discovered files (source, parse outcome, elements in document order)
RECURSIVE FilesOf(_)

FilesOf(d) ==
    IF d = << >> THEN << >>
    ELSE LET front == FilesOf(SubSeq(d, 1, Len(d) - 1))
             e == d[Len(d)]
         IN  IF e.tag = "file"
             THEN Append(front, [source |-> SourceOf(Len(front) + 1),
                                 ok |-> e.ok, records |-> << >>])
             ELSE [front EXCEPT ![Len(front)].records = Append(@, e)]

\* the state of the output folder: "exists", "creatable" (absent, makedirs
\* succeeds), "uncreatable" (absent, makedirs raises), "unwritable" (exists,
\* open() of the CSV raises)
OutDirs == {"exists", "creatable", "uncreatable", "unwritable"}

(***************************************************************************)
(* process_factions (get_factions_info.py) and process_mapdefaults         *)
(* (map_get_names.py).  Each element of a file is handled in one step.     *)
(***************************************************************************)

CurFile == files[file_i]

CurRec == CurFile.records[rec_i]

Note(kind, arg) == DiagAt(kind, arg, 0)

\* the output folder exists already
EnsureExists ==
    /\ tool \in {"factions", "map"}
    /\ xpc = "ensure"
    /\ out_dir \in {"exists", "unwritable"}
    /\ xpc' = "files"
    /\ file_i' = 1
    /\ UNCHANGED <<tool, args, files, exclude_patterns, out_dir, rec_i, all_rows,
                   csv, name_map, log, resolverVars, loaderVars, priceVars, mainVars>>

\* os.makedirs(output_folder) succeeds
EnsureCreated ==
    /\ tool \in {"factions", "map"}
    /\ xpc = "ensure"
    /\ out_dir = "creatable"
    /\ out_dir' = "exists"
    /\ xpc' = "files"
    /\ file_i' = 1
    /\ UNCHANGED <<tool, args, files, exclude_patterns, rec_i, all_rows, csv,
                   name_map, log, resolverVars, loaderVars, priceVars, mainVars>>

\* os.makedirs(output_folder) raises: the error is logged, the function returns
EnsureFailed ==
    /\ tool \in {"factions", "map"}
    /\ xpc = "ensure"
    /\ out_dir = "uncreatable"
    /\ log' = Append(log, Note("mkdir_error", << >>))
    /\ xpc' = "returned"
    /\ UNCHANGED <<tool, args, files, exclude_patterns, out_dir, file_i, rec_i,
                   all_rows, csv, name_map, resolverVars, loaderVars, priceVars, mainVars>>

\* ET.parse of the next file succeeds: the loop over its elements starts
FileParsed ==
    /\ tool \in {"factions", "map"}
    /\ xpc = "files"
    /\ file_i <= Len(files)
    /\ CurFile.ok
    /\ xpc' = "records"
    /\ rec_i' = 1
    /\ UNCHANGED <<tool, args, files, exclude_patterns, out_dir, file_i, all_rows,
                   csv, name_map, log, resolverVars, loaderVars, priceVars, mainVars>>

\* ET.parse of the next file raises: the error is logged, the next file follows
FileParseError ==
    /\ tool \in {"factions", "map"}
    /\ xpc = "files"
    /\ file_i <= Len(files)
    /\ ~CurFile.ok
    /\ log' = Append(log, Note("parse_error", << >>))
    /\ file_i' = file_i + 1
    /\ UNCHANGED <<tool, args, files, exclude_patterns, out_dir, rec_i, all_rows,
                   csv, xpc, name_map, resolverVars, loaderVars, priceVars, mainVars>>

\* the elements of the file are exhausted
FileDone ==
    /\ tool \in {"factions", "map"}
    /\ xpc = "records"
    /\ rec_i > Len(CurFile.records)
    /\ xpc' = "files"
    /\ file_i' = file_i + 1
    /\ UNCHANGED <<tool, args, files, exclude_patterns, out_dir, rec_i, all_rows,
                   csv, name_map, log, resolverVars, loaderVars, priceVars, mainVars>>

AtRecord == xpc = "records" /\ rec_i <= Len(CurFile.records)

\* what every step over an element leaves alone, besides all_rows and log
ElementFrame ==
    /\ rec_i' = rec_i + 1
    /\ UNCHANGED <<tool, args, files, exclude_patterns, out_dir, file_i, csv, xpc,
                   name_map, resolverVars, loaderVars, priceVars, mainVars>>

\* faction.get('id', '').strip()
FactionId(r) == Strip(Attr(r.id))

\* macro = f"id_{faction_id}"
FactionMacro(r) == <<"i", "d", "_">> \o FactionId(r)

NameFields == <<"name", "shortname", "prefixname", "spacename", "homespacename">>

\* the five resolve_placeholders calls of a faction, in the order of the code
FactionNames(r) == [i \in 1..5 |-> Resolved(Strip(Attr(r[NameFields[i]])))]

FactionLog(r) ==
    LET n == FactionNames(r)
    IN  n[1].log \o n[2].log \o n[3].log \o n[4].log \o n[5].log

FactionRow(r, source) ==
    LET n == FactionNames(r)
    IN  [id |-> FactionId(r), name |-> n[1].out, shortname |-> n[2].out,
         prefixname |-> n[3].out, spacename |-> n[4].out,
         homespacename |-> n[5].out, primaryrace |-> Strip(Attr(r.primaryrace)),
         source |-> source]

\* `if not faction_id`: a warning is logged and the faction is skipped
FactionNoId ==
    /\ AtRecord
    /\ tool = "factions"
    /\ FactionId(CurRec) = << >>
    /\ log' = Append(log, Note("no_id", << >>))
    /\ UNCHANGED all_rows
    /\ ElementFrame

\* an exclusion pattern matches the macro: the faction is skipped
FactionExcluded ==
    /\ AtRecord
    /\ tool = "factions"
    /\ FactionId(CurRec) # << >>
    /\ Excluded(FactionMacro(CurRec), exclude_patterns)
    /\ log' = log \o FactionLog(CurRec)
    /\ UNCHANGED all_rows
    /\ ElementFrame

\* the row of the faction is appended
FactionAppend ==
    /\ AtRecord
    /\ tool = "factions"
    /\ FactionId(CurRec) # << >>
    /\ ~Excluded(FactionMacro(CurRec), exclude_patterns)
    /\ log' = log \o FactionLog(CurRec)
    /\ all_rows' = Append(all_rows, FactionRow(CurRec, CurFile.source))
    /\ ElementFrame

\* macro.strip()
DatasetMacro(r) == Strip(r.macro)

\* the warning of extract_cluster_sector for a macro without digits
ClusterLog(macro) ==
    IF extract_cluster_sector(macro).warn
    THEN <<Note("no_digits", macro)>> ELSE << >>

\* name_attr.strip() and parse_name_reference
DatasetRef(r) == parse_name_reference(Strip(r.identification.name))

\* the name of the row: what the reference resolves to
DatasetName(r) == Resolved(Get(name_map, DatasetRef(r)))

DatasetRow(r, name, source) ==
    LET macro == DatasetMacro(r)
        ecs == extract_cluster_sector(macro)
    IN  [cluster_id |-> ecs.cluster_id, sector_id |-> ecs.sector_id,
         type |-> ecs.type, macro |-> macro, name |-> name, source |-> source]

\* `if not macro: continue`
DatasetNoMacro ==
    /\ AtRecord
    /\ tool = "map"
    /\ Falsy(CurRec.macro)
    /\ UNCHANGED <<all_rows, log>>
    /\ ElementFrame

\* an exclusion pattern matches the macro: the dataset is skipped
DatasetExcluded ==
    /\ AtRecord
    /\ tool = "map"
    /\ ~Falsy(CurRec.macro)
    /\ Excluded(DatasetMacro(CurRec), exclude_patterns)
    /\ UNCHANGED <<all_rows, log>>
    /\ ElementFrame

Passed(r) ==
    /\ ~Falsy(r.macro)
    /\ ~Excluded(DatasetMacro(r), exclude_patterns)

\* no identification element, or one without name: no row is made
DatasetNoName ==
    /\ AtRecord
    /\ tool = "map"
    /\ Passed(CurRec)
    /\ ~CurRec.identification.present \/ Falsy(CurRec.identification.name)
    /\ log' = log \o ClusterLog(DatasetMacro(CurRec))
    /\ UNCHANGED all_rows
    /\ ElementFrame

\* the name attribute is no reference: a warning, and the name is 'Unknown'
DatasetInvalidRef ==
    /\ AtRecord
    /\ tool = "map"
    /\ Passed(CurRec)
    /\ CurRec.identification.present
    /\ ~Falsy(CurRec.identification.name)
    /\ DatasetRef(CurRec) = None
    /\ log' = log \o ClusterLog(DatasetMacro(CurRec))
                  \o <<Note("invalid_ref", Strip(CurRec.identification.name))>>
    /\ all_rows' = Append(all_rows, DatasetRow(CurRec, Unknown, CurFile.source))
    /\ ElementFrame

\* the name is looked up and resolved, the row is appended
DatasetAppend ==
    /\ AtRecord
    /\ tool = "map"
    /\ Passed(CurRec)
    /\ CurRec.identification.present
    /\ ~Falsy(CurRec.identification.name)
    /\ DatasetRef(CurRec) # None
    /\ log' = log \o ClusterLog(DatasetMacro(CurRec)) \o DatasetName(CurRec).log
    /\ all_rows' = Append(all_rows,
                          DatasetRow(CurRec, DatasetName(CurRec).out, CurFile.source))
    /\ ElementFrame

AtEnd == xpc = "files" /\ file_i > Len(files)

EndFrame ==
    UNCHANGED <<tool, args, files, exclude_patterns, out_dir, file_i, rec_i,
                name_map, resolverVars, loaderVars, priceVars, mainVars>>

FactionColumns ==
    <<"id", "name", "shortname", "prefixname", "spacename", "homespacename",
      "primaryrace", "source">>

\* csv.DictWriter.writerow: the cells of a row in the order of the columns
FactionCells(row) == [i \in 1..Len(FactionColumns) |-> row[FactionColumns[i]]]

MapColumns == <<"macro", "name", "source", "type">>

\* writer.writerow([macro, name, source, entry_type])
MapCells(row) == <<row.macro, row.name, row.source, row.type>>

\* `if not all_rows`: a warning, and no file is written
FactionsNoRows ==
    /\ AtEnd
    /\ tool = "factions"
    /\ all_rows = << >>
    /\ log' = Append(log, Note("no_rows", << >>))
    /\ xpc' = "returned"
    /\ UNCHANGED <<all_rows, csv>>
    /\ EndFrame

\* factions_output.csv is written
FactionsWrite ==
    /\ AtEnd
    /\ tool = "factions"
    /\ all_rows # << >>
    /\ out_dir = "exists"
    /\ csv' = [written |-> TRUE, header |-> FactionColumns,
               rows |-> [i \in 1..Len(all_rows) |-> FactionCells(all_rows[i])]]
    /\ xpc' = "returned"
    /\ UNCHANGED <<all_rows, log>>
    /\ EndFrame

\* open() raises: the error is logged
FactionsWriteError ==
    /\ AtEnd
    /\ tool = "factions"
    /\ all_rows # << >>
    /\ out_dir = "unwritable"
    /\ log' = Append(log, Note("write_error", << >>))
    /\ xpc' = "returned"
    /\ UNCHANGED <<all_rows, csv>>
    /\ EndFrame

\* the rows are sorted and mapdefaults_output.csv is written
MapWrite ==
    /\ AtEnd
    /\ tool = "map"
    /\ out_dir = "exists"
    /\ all_rows' = SortRows(all_rows)
    /\ csv' = [written |-> TRUE, header |-> MapColumns,
               rows |-> [i \in 1..Len(all_rows) |-> MapCells(SortRows(all_rows)[i])]]
    /\ xpc' = "returned"
    /\ UNCHANGED log
    /\ EndFrame

\* the rows are sorted, open() raises and the exception leaves the function
MapWriteRaises ==
    /\ AtEnd
    /\ tool = "map"
    /\ out_dir = "unwritable"
    /\ all_rows' = SortRows(all_rows)
    /\ xpc' = "raised"
    /\ UNCHANGED <<csv, log>>
    /\ EndFrame

\* main of the faction or the map tool calls the extractor on the discovered
\* files, with the patterns of get_base_folder and the loaded map
ExtractInit ==
    /\ tool \in {"factions", "map"}
    /\ \/ args \in ArgsSet /\ out_dir = "exists"
       \/ args = [folder |-> TRUE, exclude_macro_regex |-> DEFAULT_EXCLUDE_PATTERNS]
              /\ out_dir \in OutDirs
    /\ exclude_patterns = get_base_folder(tool, args)
    /\ files \in {FilesOf(d) :
                    d \in Inputs(IF tool = "factions" THEN Factions ELSE Datasets,
                                 MaxElements)}
    /\ name_map = ExtractMap
    /\ file_i = 0
    /\ rec_i = 0
    /\ all_rows = << >>
    /\ csv = NoCsv
    /\ xpc = "ensure"
    /\ log = << >>
    /\ ResolverIdle
    /\ LoaderIdle
    /\ PriceIdle
    /\ MainIdle

ExtractNext ==
    \/ EnsureExists
    \/ EnsureCreated
    \/ EnsureFailed
    \/ FileParsed
    \/ FileParseError
    \/ FileDone
    \/ FactionNoId
    \/ FactionExcluded
    \/ FactionAppend
    \/ DatasetNoMacro
    \/ DatasetExcluded
    \/ DatasetNoName
    \/ DatasetInvalidRef
    \/ DatasetAppend
    \/ FactionsNoRows
    \/ FactionsWrite
    \/ FactionsWriteError
    \/ MapWrite
    \/ MapWriteRaises

ExtractSpec == ExtractInit /\ [][ExtractNext]_vars

(***************************************************************************)
(* The ware extractor: process_all_wares                                   *)
(***************************************************************************)

container == <<"c", "o", "n", "t", "a", "i", "n", "e", "r">>

liquid == <<"l", "i", "q", "u", "i", "d">>

solid == <<"s", "o", "l", "i", "d">>

\* VALID_TRANSPORT = {'container', 'liquid', 'solid'}
VALID_TRANSPORT == {container, liquid, solid}

module == <<"m", "o", "d", "u", "l", "e">>

RECURSIVE SplitWs(_)
\* s.split(): the runs of characters between whitespace
SplitWs(s) ==
    LET t == LStrip(s) IN
    IF t = << >> THEN << >>
    ELSE LET n == CHOOSE j \in 1..Len(t) :
                      /\ \A k \in 1..j : ~IsSpace(t[k])
                      /\ j < Len(t) => IsSpace(t[j + 1])
         IN  <<SubSeq(t, 1, n)>> \o SplitWs(SubSeq(t, n + 1, Len(t)))

InList(x, list) == \E i \in 1..Len(list) : list[i] = x

\* a string float() accepts: here a run of digits
IsNumeral(s) == s # << >> /\ \A i \in 1..Len(s) : IsDigit(s[i])

\* f"{x:.0f}": the nearest integer, ties to the even one; 'inf' for inf
Format0f(x) ==
    IF x = Inf THEN <<"i", "n", "f">>
    ELSE IF x = 0 - Inf THEN <<"-", "i", "n", "f">>
    ELSE LET a == IF x < 0 THEN 0 - x ELSE x
             q == a \div One
             r == a % One
             n == IF 2 * r > One \/ (2 * r = One /\ q % 2 = 1) THEN q + 1 ELSE q
         IN  (IF x < 0 THEN <<"-">> ELSE << >>) \o Decimal(n)

\* csv.writer writes None as the empty string
CsvCell(x) == IF x = None THEN << >> ELSE x

\* ware.find('price'): absent, or present with its min and max attributes
NoPrice == [present |-> FALSE, min |-> None, max |-> None]

Price(min, max) == [present |-> TRUE, min |-> min, max |-> max]

Ware(tags, transport, name, price) ==
    [tag |-> "ware", tags |-> tags, transport |-> transport, name |-> name,
     price |-> price]

Ten == <<"1", "0">>

Twenty == <<"2", "0">>

\* the ware elements of the inputs
Wares ==
    { Ware(None, container, Tok(<<"1">>, <<"1">>), Price(Ten, Twenty)),
      Ware(<<"m", "o", "d", "u", "l", "e", "s">>, liquid, Tok(<<"1">>, <<"2">>),
           Price(Ten, Twenty)),
      Ware(<<"a", " ">> \o module, container, Tok(<<"1">>, <<"1">>), Price(Ten, Twenty)),
      Ware(None, <<"s", "h", "i", "p">>, Tok(<<"1">>, <<"1">>), Price(Ten, Twenty)),
      Ware(None, solid, Tok(<<"1">>, <<"1">>), NoPrice),
      Ware(None, solid, <<"x">>, Price(Ten, Twenty)),
      Ware(None, solid, Tok(<<"9">>, <<"9">>), Price(Twenty, Ten)),
      Ware(None, solid, Tok(<<"1">>, <<"3">>), Price(None, Twenty)),
      Ware(None, None, Tok(<<"1">>, <<"3">>), Price(<<"3">>, <<"4">>)),
      Ware(None, solid, Tok(<<"1">>, <<"3">>), Price(<<"3">>, <<"4">>)),
      Ware(None, solid, Tok(<<"1">>, <<"1">>), Price(<<"x">>, Twenty)) }

\* the localization map as the ware tool loads it: an entry without text is
\* stored as None; 1_1 -> 'A (x)', 1_2 -> '{1,1}', 1_3 -> None
WaresMap ==
    [k \in {Key(<<"1">>, <<"1">>), Key(<<"1">>, <<"2">>), Key(<<"1">>, <<"3">>)} |->
        IF k = Key(<<"1">>, <<"3">>) THEN None ELSE ExtractMap[k]]

WaresColumns ==
    << <<"n", "a", "m", "e">>, <<"m", "i", "n">>, <<"m", "a", "x">>, <<"a", "v", "g">>,
       <<"3", "0", "%", " ", "m", "i", "n">>, <<"3", "0", "%", " ", "m", "a", "x">>,
       <<"5", "0", "%", " ", "m", "i", "n">>, <<"5", "0", "%", " ", "m", "a", "x">>,
       <<"7", "0", "%", " ", "m", "i", "n">>, <<"7", "0", "%", " ", "m", "a", "x">>,
       <<"t", "r", "a", "n", "s", "p", "o", "r", "t">>,
       <<"s", "o", "u", "r", "c", "e">> >>

\* 'module' in ware.get('tags', '').split()
IsModule(w) == InList(module, SplitWs(Attr(w.tags)))

\* name_ref = parse_name_reference(ware.get('name'))
WareRef(w) == parse_name_reference(w.name)

\* the ware passes every `continue` and every `if` before the row is computed
WarePriced(w) ==
    /\ ~IsModule(w)
    /\ w.transport \in VALID_TRANSPORT
    /\ w.price.present
    /\ WareRef(w) # None
    /\ ~Falsy(w.price.min) /\ ~Falsy(w.price.max)

\* float() accepts both prices
WareNumeric(w) == IsNumeral(w.price.min) /\ IsNumeral(w.price.max)

\* name = name_map.get(name_ref, 'Unknown')
WareName(w) == Get(name_map, WareRef(w))

\* the row writer.writerow writes for a ware
WareCells(w, source) ==
    LET r == calculate_price_ranges(w.price.min, w.price.max)
    IN  <<CsvCell(WareName(w)), w.price.min, w.price.max,
          Format0f(r["avg"]),
          Format0f(r["30_min"]), Format0f(r["30_max"]),
          Format0f(r["50_min"]), Format0f(r["50_max"]),
          Format0f(r["70_min"]), Format0f(r["70_max"]),
          w.transport, source>>

WaresFrame ==
    UNCHANGED <<tool, args, files, exclude_patterns, all_rows, name_map,
                resolverVars, loaderVars, priceVars, mainVars>>

\* the output folder exists or is created, the CSV file is opened and its
\* header is written
WaresOpened ==
    /\ tool = "wares"
    /\ xpc = "ensure"
    /\ out_dir \in {"exists", "creatable"}
    /\ out_dir' = "exists"
    /\ csv' = [written |-> TRUE, header |-> WaresColumns, rows |-> << >>]
    /\ xpc' = "files"
    /\ file_i' = 1
    /\ UNCHANGED <<rec_i, log>>
    /\ WaresFrame

\* os.makedirs(output_folder) raises: the error is logged, the function returns
WaresEnsureFailed ==
    /\ tool = "wares"
    /\ xpc = "ensure"
    /\ out_dir = "uncreatable"
    /\ log' = Append(log, Note("mkdir_error", << >>))
    /\ xpc' = "returned"
    /\ UNCHANGED <<out_dir, csv, file_i, rec_i>>
    /\ WaresFrame

\* open() raises: the exception leaves the function
WaresOpenRaises ==
    /\ tool = "wares"
    /\ xpc = "ensure"
    /\ out_dir = "unwritable"
    /\ xpc' = "raised"
    /\ UNCHANGED <<out_dir, csv, file_i, rec_i, log>>
    /\ WaresFrame

\* ET.parse of the next file succeeds
WaresFileParsed ==
    /\ tool = "wares"
    /\ xpc = "files"
    /\ file_i <= Len(files)
    /\ CurFile.ok
    /\ xpc' = "records"
    /\ rec_i' = 1
    /\ UNCHANGED <<out_dir, csv, file_i, log>>
    /\ WaresFrame

\* ET.parse of the next file raises: the exception leaves the function, the
\* with statement closes the file with the rows written so far
WaresParseRaises ==
    /\ tool = "wares"
    /\ xpc = "files"
    /\ file_i <= Len(files)
    /\ ~CurFile.ok
    /\ xpc' = "raised"
    /\ UNCHANGED <<out_dir, csv, file_i, rec_i, log>>
    /\ WaresFrame

\* the ware is skipped: a module, another transport, no price element, no
\* name reference, or an empty price
WareSkipped ==
    /\ tool = "wares"
    /\ AtRecord
    /\ ~WarePriced(CurRec)
    /\ rec_i' = rec_i + 1
    /\ UNCHANGED <<out_dir, csv, file_i, xpc, log>>
    /\ WaresFrame

\* the row of the ware is written
WareRow ==
    /\ tool = "wares"
    /\ AtRecord
    /\ WarePriced(CurRec)
    /\ WareNumeric(CurRec)
    /\ csv' = [csv EXCEPT !.rows = Append(@, WareCells(CurRec, CurFile.source))]
    /\ rec_i' = rec_i + 1
    /\ UNCHANGED <<out_dir, file_i, xpc, log>>
    /\ WaresFrame

\* float() raises ValueError: the exception leaves the function
WareRaises ==
    /\ tool = "wares"
    /\ AtRecord
    /\ WarePriced(CurRec)
    /\ ~WareNumeric(CurRec)
    /\ xpc' = "raised"
    /\ UNCHANGED <<out_dir, csv, file_i, rec_i, log>>
    /\ WaresFrame

\* the elements of the file are exhausted
WaresFileDone ==
    /\ tool = "wares"
    /\ xpc = "records"
    /\ rec_i > Len(CurFile.records)
    /\ xpc' = "files"
    /\ file_i' = file_i + 1
    /\ UNCHANGED <<out_dir, csv, rec_i, log>>
    /\ WaresFrame

\* the files are exhausted: the file is closed, the function returns
WaresReturn ==
    /\ tool = "wares"
    /\ AtEnd
    /\ xpc' = "returned"
    /\ UNCHANGED <<out_dir, csv, file_i, rec_i, log>>
    /\ WaresFrame

\* main of the ware tool calls process_all_wares on the discovered files (at
\* least one, or find_wares_files raises) with the loaded map
WaresInit ==
    /\ tool = "wares"
    /\ args = [folder |-> TRUE, exclude_macro_regex |-> << >>]
    /\ exclude_patterns = << >>
    /\ out_dir \in OutDirs
    /\ files \in {FilesOf(d) : d \in Inputs(Wares, MaxElements)} \ {<< >>}
    /\ name_map = WaresMap
    /\ file_i = 0
    /\ rec_i = 0
    /\ all_rows = << >>
    /\ csv = NoCsv
    /\ xpc = "ensure"
    /\ log = << >>
    /\ ResolverIdle
    /\ LoaderIdle
    /\ PriceIdle
    /\ MainIdle

WaresNext ==
    \/ WaresOpened
    \/ WaresEnsureFailed
    \/ WaresOpenRaises
    \/ WaresFileParsed
    \/ WaresParseRaises
    \/ WareSkipped
    \/ WareRow
    \/ WareRaises
    \/ WaresFileDone
    \/ WaresReturn

WaresSpec == WaresInit /\ [][WaresNext]_vars

(***************************************************************************)
(* The ship extractor: process_ships                                       *)
(***************************************************************************)

DigitSeq == <<"0", "1", "2", "3", "4", "5", "6", "7", "8", "9">>

UpperCase ==
    <<"A", "B", "C", "D", "E", "F", "G", "H", "I", "J", "K", "L", "M",
      "N", "O", "P", "Q", "R", "S", "T", "U", "V", "W", "X", "Y", "Z">>

LowerCase ==
    <<"a", "b", "c", "d", "e", "f", "g", "h", "i", "j", "k", "l", "m",
      "n", "o", "p", "q", "r", "s", "t", "u", "v", "w", "x", "y", "z">>

\* the characters of the inputs in the order of their code points
CodePoints ==
    <<" ", "(", ")", ",", "-">> \o DigitSeq \o UpperCase \o <<"[", "]", "_">> \o LowerCase

Ord(c) == CHOOSE i \in 1..Len(CodePoints) : CodePoints[i] = c

\* \w
IsWord(c) ==
    \/ c = "_"
    \/ \E i \in 1..10 : DigitSeq[i] = c
    \/ \E i \in 1..26 : UpperCase[i] = c \/ LowerCase[i] = c

RECURSIVE WordRuns(_)
\* re.findall(r'\w+', s)
WordRuns(s) ==
    IF \A i \in 1..Len(s) : ~IsWord(s[i]) THEN << >>
    ELSE LET b == CHOOSE i \in 1..Len(s) :
                      IsWord(s[i]) /\ \A k \in 1..(i - 1) : ~IsWord(s[k])
             e == CHOOSE j \in b..Len(s) :
                      /\ \A k \in b..j : IsWord(s[k])
                      /\ j < Len(s) => ~IsWord(s[j + 1])
         IN  <<SubSeq(s, b, e)>> \o WordRuns(SubSeq(s, e + 1, Len(s)))

RECURSIVE StrLess(_, _)
\* a < b for two strings
StrLess(a, b) ==
    IF b = << >> THEN FALSE
    ELSE IF a = << >> THEN TRUE
    ELSE IF a[1] # b[1] THEN Ord(a[1]) < Ord(b[1])
    ELSE StrLess(Tail(a), Tail(b))

RECURSIVE SortedDescending(_)
\* mutant: the strings are sorted in descending order
SortedDescending(S) ==
    IF S = {} THEN << >>
    ELSE LET x == CHOOSE y \in S : \A z \in S \ {y} : StrLess(z, y)
         IN  <<x>> \o SortedDescending(S \ {x})

RECURSIVE Sorted(_)
\* sorted(S) for a collection of distinct strings
Sorted(S) ==
    IF S = {} THEN << >>
    ELSE LET x == CHOOSE y \in S : \A z \in S \ {y} : StrLess(y, z)
         IN  <<x>> \o Sorted(S \ {x})

\* ship.find('category'): absent, or present with its attributes
NoCategory == [present |-> FALSE, size |-> None, faction |-> None, tags |-> None]

Category(size, faction, tags) ==
    [present |-> TRUE, size |-> size, faction |-> faction, tags |-> tags]

Ship(id, group, category) ==
    [tag |-> "ship", id |-> id, group |-> group, category |-> category]

\* the ship elements of the inputs
Ships ==
    { Ship(<<"s", "1">>, <<"g">>, Category(<<"s">>, <<"a">>, <<"t">>)),
      Ship(<<"s", "2">>, None, Category(None, <<"b", " ", "a">>, None)),
      Ship(<<"s", "3">>, None,
           Category(<<"s">>, <<"[", "a", ",", " ", "c", "]">>, <<"t", "1", " ", "T">>)),
      Ship(<<" ">>, <<"g">>, Category(<<"s">>, <<"z">>, <<"z">>)),
      Ship(<<"s", "5">>, <<"g">>, NoCategory),
      Ship(<<"s", "6">>, None, Category(None, <<"a", "-", "a">>, <<"a">>)) }

\* ship.get('id', '').strip()
ShipId(r) == Strip(Attr(r.id))

\* the entry appended to ships_data
ShipEntry(r, source) ==
    [id |-> ShipId(r), group |-> Strip(Attr(r.group)),
     size |-> Strip(Attr(r.category.size)), source |-> source,
     factions |-> WordRuns(Strip(Attr(r.category.faction))),
     tags |-> WordRuns(Strip(Attr(r.category.tags)))]

TokensOf(list) == {list[j] : j \in 1..Len(list)}

\* factions_set and tags_set once the entries have been collected
FactionsSet(entries) == UNION {TokensOf(entries[i].factions) : i \in 1..Len(entries)}

TagsSet(entries) == UNION {TokensOf(entries[i].tags) : i \in 1..Len(entries)}

\* f"({f})" and f"[{t}]"
EncloseFaction(f) == <<"(">> \o f \o <<")">>

EncloseTag(t) == <<"[">> \o t \o <<"]">>

\* sorted_factions and sorted_tags
SortedFactions(entries) == Sorted({EncloseFaction(f) : f \in FactionsSet(entries)})

SortedTags(entries) == Sorted({EncloseTag(t) : t \in TagsSet(entries)})

FixedColumns ==
    << <<"i", "d">>, <<"g", "r", "o", "u", "p">>, <<"s", "i", "z", "e">>,
       <<"s", "o", "u", "r", "c", "e">> >>

\* csv_columns
ShipColumns(entries) == FixedColumns \o SortedFactions(entries) \o SortedTags(entries)

TrueCell == <<"T", "R", "U", "E">>

FalseCell == <<"F", "A", "L", "S", "E">>

\* the row DictWriter writes for an entry: every dynamic column is 'FALSE'
\* unless one of the entry's own factions or tags sets it to 'TRUE'
ShipCells(e, entries) ==
    LET fs == SortedFactions(entries)
        ts == SortedTags(entries)
    IN  <<e.id, e.group, e.size, e.source>>
            \o [i \in 1..Len(fs) |->
                  IF \E f \in TokensOf(e.factions) : EncloseFaction(f) = fs[i]
                  THEN TrueCell ELSE FalseCell]
            \o [i \in 1..Len(ts) |->
                  IF \E t \in TokensOf(e.tags) : EncloseTag(t) = ts[i]
                  THEN TrueCell ELSE FalseCell]

ShipsFrame ==
    UNCHANGED <<tool, args, files, exclude_patterns, out_dir, name_map,
                resolverVars, loaderVars, priceVars, mainVars>>

\* ET.parse of the next file succeeds
ShipsFileParsed ==
    /\ tool = "ships"
    /\ xpc = "files"
    /\ file_i <= Len(files)
    /\ CurFile.ok
    /\ xpc' = "records"
    /\ rec_i' = 1
    /\ UNCHANGED <<file_i, all_rows, csv, log>>
    /\ ShipsFrame

\* ET.parse of the next file raises: the error is logged, the next file follows
ShipsFileParseError ==
    /\ tool = "ships"
    /\ xpc = "files"
    /\ file_i <= Len(files)
    /\ ~CurFile.ok
    /\ log' = Append(log, Note("parse_error", << >>))
    /\ file_i' = file_i + 1
    /\ UNCHANGED <<rec_i, all_rows, csv, xpc>>
    /\ ShipsFrame

\* the ship elements of the file are exhausted
ShipsFileDone ==
    /\ tool = "ships"
    /\ xpc = "records"
    /\ rec_i > Len(CurFile.records)
    /\ xpc' = "files"
    /\ file_i' = file_i + 1
    /\ UNCHANGED <<rec_i, all_rows, csv, log>>
    /\ ShipsFrame

\* `if not ship_id`: a warning is logged and the ship is skipped
ShipNoId ==
    /\ tool = "ships"
    /\ AtRecord
    /\ ShipId(CurRec) = << >>
    /\ log' = Append(log, Note("no_id", << >>))
    /\ rec_i' = rec_i + 1
    /\ UNCHANGED <<file_i, all_rows, csv, xpc>>
    /\ ShipsFrame

\* the factions and tags of the ship are collected, its entry is appended
ShipAppend ==
    /\ tool = "ships"
    /\ AtRecord
    /\ ShipId(CurRec) # << >>
    /\ all_rows' = Append(all_rows, ShipEntry(CurRec, CurFile.source))
    /\ rec_i' = rec_i + 1
    /\ UNCHANGED <<file_i, csv, xpc, log>>
    /\ ShipsFrame

\* `if not ships_data`: a warning, and no file is written
ShipsNoData ==
    /\ tool = "ships"
    /\ AtEnd
    /\ all_rows = << >>
    /\ log' = Append(log, Note("no_rows", << >>))
    /\ xpc' = "returned"
    /\ UNCHANGED <<file_i, rec_i, all_rows, csv>>
    /\ ShipsFrame

\* the columns are fixed and ships_output.csv is written
ShipsWrite ==
    /\ tool = "ships"
    /\ AtEnd
    /\ all_rows # << >>
    /\ out_dir = "exists"
    /\ csv' = [written |-> TRUE, header |-> ShipColumns(all_rows),
               rows |-> [i \in 1..Len(all_rows) |-> ShipCells(all_rows[i], all_rows)]]
    /\ xpc' = "returned"
    /\ UNCHANGED <<file_i, rec_i, all_rows, log>>
    /\ ShipsFrame

\* open() raises, the output folder being absent or the path not writable:
\* the error is logged
ShipsWriteError ==
    /\ tool = "ships"
    /\ AtEnd
    /\ all_rows # << >>
    /\ out_dir # "exists"
    /\ log' = Append(log, Note("write_error", << >>))
    /\ xpc' = "returned"
    /\ UNCHANGED <<file_i, rec_i, all_rows, csv>>
    /\ ShipsFrame

\* main of the ship tool calls process_ships on the discovered files (at
\* least one)
ShipsInit ==
    /\ tool = "ships"
    /\ args = [folder |-> TRUE, exclude_macro_regex |-> << >>]
    /\ exclude_patterns = << >>
    /\ out_dir \in OutDirs
    /\ files \in {FilesOf(d) : d \in Inputs(Ships, MaxElements)} \ {<< >>}
    /\ name_map = << >>
    /\ file_i = 1
    /\ rec_i = 0
    /\ all_rows = << >>
    /\ csv = NoCsv
    /\ xpc = "files"
    /\ log = << >>
    /\ ResolverIdle
    /\ LoaderIdle
    /\ PriceIdle
    /\ MainIdle

ShipsNext ==
    \/ ShipsFileParsed
    \/ ShipsFileParseError
    \/ ShipsFileDone
    \/ ShipNoId
    \/ ShipAppend
    \/ ShipsNoData
    \/ ShipsWrite
    \/ ShipsWriteError

ShipsSpec == ShipsInit /\ [][ShipsNext]_vars

(***************************************************************************)
(* main of the four tools: the command line, the validation of the base    *)
(* folder, the discovery of the source files (find_*_files), the           *)
(* localization file, and the calls of load_localization and of the        *)
(* extractor, whose steps are the actions above.  A raised exception takes *)
(* main to its `except Exception` clause.                                  *)
(***************************************************************************)

MainTools == Tools \cup {"ships"}

\* parse_args accepts the command line, or rejects it (an unknown option, a
\* second positional argument): parser.error prints the usage and raises
\* SystemExit(2)
CommandLines == {"accepted", "rejected"}

\* the statements of each main, in their order
Stages(tl) ==
    CASE tl = "factions" ->
             <<"args", "validate", "loc", "load", "find", "process", "complete">>
      [] tl = "map" ->
             <<"args", "validate", "find", "loc", "load", "process", "complete">>
      [] tl = "wares" -> <<"args", "find", "loc", "load", "process", "complete">>
      [] tl = "ships" -> <<"args", "validate", "find", "process", "complete">>

\* the statement that follows `stage`
After(tl, stage) ==
    LET s == Stages(tl)
        i == CHOOSE j \in 1..Len(s) : s[j] = stage
    IN  s[i + 1]

\* a source file that exists: whether ET.parse succeeds, and its elements
SourceFile(ok, records) == [present |-> TRUE, ok |-> ok, records |-> records]

\* the elements of the source files of the runs of main
MainElements(tl) ==
    CASE tl = "factions" ->
             { Faction(None, Tok(<<"1">>, <<"1">>), Tok(<<"1">>, <<"2">>)),
               Faction(alpha_demo, Tok(<<"1">>, <<"1">>), Tok(<<"1">>, <<"2">>)),
               Faction(<<" ">> \o demo_alpha, Tok(<<"1">>, <<"1">>), Tok(<<"1">>, <<"2">>)) }
      [] tl = "map" ->
             { Dataset(None, Identification(Tok(<<"1">>, <<"1">>))),
               Dataset(alpha_demo, Identification(Tok(<<"1">>, <<"1">>))),
               Dataset(demo_alpha, Identification(Tok(<<"1">>, <<"1">>))),
               Dataset(alpha_demo, NoIdentification),
               Dataset(alpha_demo, Identification(<<"x">>)) }
      [] tl = "wares" ->
             { Ware(None, container, Tok(<<"1">>, <<"1">>), Price(Ten, Twenty)),
               Ware(<<"a", " ">> \o module, container, Tok(<<"1">>, <<"1">>),
                    Price(Ten, Twenty)),
               Ware(None, solid, Tok(<<"1">>, <<"1">>), Price(<<"x">>, Twenty)) }
      [] tl = "ships" ->
             { Ship(<<"s", "1">>, <<"g">>, Category(<<"s">>, <<"a">>, <<"t">>)),
               Ship(<<" ">>, <<"g">>, Category(<<"s">>, <<"z">>, <<"z">>)),
               Ship(<<"s", "5">>, <<"g">>, NoCategory) }

\* <base>/libraries/<file>.xml when it exists: malformed, without elements, or
\* with one element
OriginalFiles(tl) ==
    {SourceFile(FALSE, << >>), SourceFile(TRUE, << >>)}
        \cup {SourceFile(TRUE, <<e>>) : e \in MainElements(tl)}

\* an entry of <base>/extensions: a plain file, a directory without
\* libraries/<file>.xml, or a directory with it (malformed, or without elements)
ExtensionEntries ==
    {[kind |-> "file", target |-> NoFile], [kind |-> "dir", target |-> NoFile]}
        \cup {[kind |-> "dir", target |-> SourceFile(b, << >>)] : b \in BOOLEAN}

MaxExtensions == 2

\* os.listdir(extensions_path), in the order it returns the entries
RECURSIVE Listings(_)

Listings(n) ==
    IF n = 0 THEN {<< >>}
    ELSE LET S == Listings(n - 1)
         IN  S \cup {Append(l, e) : l \in {x \in S : Len(x) = n - 1},
                                    e \in ExtensionEntries}

\* <base>/extensions: absent, a regular file, or a directory
ExtensionsStates ==
    {[kind |-> k, entries |-> << >>] : k \in {"absent", "file"}}
        \cup {[kind |-> "dir", entries |-> l] : l \in Listings(MaxExtensions)}

\* the base folder: libraries/<file>.xml needs the libraries directory,
\* t/0001-l044.xml needs the t directory
Layouts(tl) ==
    {l \in [libraries : BOOLEAN, original : {NoFile} \cup OriginalFiles(tl),
            t : BOOLEAN, loc : BOOLEAN, extensions : ExtensionsStates] :
        (l.original.present => l.libraries) /\ (l.loc => l.t)}

\* the name of the j-th entry of the listing
ExtensionName(j) == SourceOf(j + 1)

\* the tuple (source, path) appended for a file that exists
Discovered(source, f) == [source |-> source, ok |-> f.ok, records |-> f.records]

\* the loop over os.listdir(extensions_path)
RECURSIVE ExtensionFiles(_)

ExtensionFiles(entries) ==
    IF entries = << >> THEN << >>
    ELSE LET n == Len(entries)
             front == ExtensionFiles(SubSeq(entries, 1, n - 1))
         IN  IF entries[n].target.present
             THEN Append(front, Discovered(ExtensionName(n), entries[n].target))
             ELSE front

\* find_factions_files, find_mapdefaults_files, find_wares_files,
\* find_ships_files: os.path.exists(extensions_path) holds for a regular file
\* too, and os.listdir of it raises NotADirectoryError; find_wares_files raises
\* FileNotFoundError when it found nothing
find_files(tl, lay) ==
    LET base == IF lay.original.present
                THEN <<Discovered("original", lay.original)>>
                ELSE << >>
        all == base \o ExtensionFiles(lay.extensions.entries)
    IN  IF lay.extensions.kind = "file" THEN [raised |-> TRUE, files |-> << >>]
        ELSE IF tl = "wares" /\ all = << >> THEN [raised |-> TRUE, files |-> << >>]
        ELSE [raised |-> FALSE, files |-> all]

\* mutant: the folder structure is never found wanting
ValidateNeverRaises(tl, lay) == FALSE

\* validate_folder_structure raises FileNotFoundError; the ware tool does not
\* call it
ValidateRaises(tl, lay) ==
    CASE tl = "map" -> ~(lay.libraries /\ lay.t)
      [] tl = "wares" -> FALSE
      [] OTHER -> ~lay.libraries

\* the localization document of the runs: malformed, or a page without id,
\* then page 1 with a t element without id and the entries 1, 2 and 3
MainCatalogs ==
    { [ok |-> FALSE, pages |-> << >>],
      [ok |-> TRUE,
       pages |-> << [id |-> None, entries |-> << >>],
                    [id |-> <<"1">>,
                     entries |-> << [id |-> None, text |-> <<"x">>],
                                    [id |-> <<"1">>, text |-> <<"A", " ", "(", "x", ")">>],
                                    [id |-> <<"2">>, text |-> Tok(<<"1">>, <<"1">>)],
                                    [id |-> <<"3">>, text |-> None] >>] >>] }

\* the command lines that parse_args accepts: the default patterns or
\* --exclude-macro-regex ^id_demo_ in the faction and map tools
MainArgs(tl) ==
    IF tl \in {"factions", "map"}
    THEN {[folder |-> TRUE, exclude_macro_regex |-> r] :
             r \in {DEFAULT_EXCLUDE_PATTERNS,
                    << <<"^", "i", "d", "_", "d", "e", "m", "o", "_">> >>}}
    ELSE {[folder |-> TRUE, exclude_macro_regex |-> << >>]}

\* what main leaves alone outside its own variables
MainFrame ==
    UNCHANGED <<tool, args, layout, catalog, out_dir, name_map, page_i, t_i,
                rec_i, all_rows, csv, resolverVars, priceVars>>

\* parser.parse_args() rejects the command line: SystemExit(2) is not an
\* Exception, it passes the except clause and ends the process
MainArgsRejected ==
    /\ mpc = "args"
    /\ cmdline' = "rejected"
    /\ exit_code' = 2
    /\ mpc' = "exited"
    /\ UNCHANGED <<exclude_patterns, files, file_i, lpc, xpc, log>>
    /\ MainFrame

\* get_base_folder returns the base folder, the output folder and, in the
\* faction and map tools, the exclusion patterns
MainArgsParsed ==
    /\ mpc = "args"
    /\ cmdline' = "accepted"
    /\ exclude_patterns' = IF tool \in {"factions", "map"}
                           THEN get_base_folder(tool, args)
                           ELSE exclude_patterns
    /\ mpc' = After(tool, "args")
    /\ UNCHANGED <<exit_code, files, file_i, lpc, xpc, log>>
    /\ MainFrame

\* validate_folder_structure raises
MainValidateRaises ==
    /\ mpc = "validate"
    /\ ValidateRaises(tool, layout)
    /\ mpc' = "handler"
    /\ UNCHANGED <<cmdline, exit_code, exclude_patterns, files, file_i, lpc, xpc, log>>
    /\ MainFrame

\* validate_folder_structure returns; the faction and ship tools warn when
\* 'extensions' is not a directory
MainValidated ==
    /\ mpc = "validate"
    /\ ~ValidateRaises(tool, layout)
    /\ log' = IF tool \in {"factions", "ships"} /\ layout.extensions.kind # "dir"
              THEN Append(log, Note("no_extensions", << >>))
              ELSE log
    /\ mpc' = After(tool, "validate")
    /\ UNCHANGED <<cmdline, exit_code, exclude_patterns, files, file_i, lpc, xpc>>
    /\ MainFrame

\* `if not os.path.exists(loc_path): raise FileNotFoundError(...)`
MainLocMissing ==
    /\ mpc = "loc"
    /\ ~layout.loc
    /\ mpc' = "handler"
    /\ UNCHANGED <<cmdline, exit_code, exclude_patterns, files, file_i, lpc, xpc, log>>
    /\ MainFrame

\* the localization file exists
MainLocFound ==
    /\ mpc = "loc"
    /\ layout.loc
    /\ mpc' = After(tool, "loc")
    /\ UNCHANGED <<cmdline, exit_code, exclude_patterns, files, file_i, lpc, xpc, log>>
    /\ MainFrame

\* name_map = load_localization(loc_path): the call
MainLoad ==
    /\ mpc = "load"
    /\ lpc = "idle"
    /\ lpc' = "parse"
    /\ UNCHANGED <<cmdline, exit_code, mpc, exclude_patterns, files, file_i, xpc, log>>
    /\ MainFrame

\* load_localization has returned
MainLoaded ==
    /\ mpc = "load"
    /\ lpc = "returned"
    /\ mpc' = After(tool, "load")
    /\ UNCHANGED <<cmdline, exit_code, exclude_patterns, files, file_i, lpc, xpc, log>>
    /\ MainFrame

\* find_*_files raises
MainFindRaises ==
    /\ mpc = "find"
    /\ find_files(tool, layout).raised
    /\ mpc' = "handler"
    /\ UNCHANGED <<cmdline, exit_code, exclude_patterns, files, file_i, lpc, xpc, log>>
    /\ MainFrame

\* find_*_files returns the list; all but the ware tool warn when it is empty
MainFound ==
    /\ mpc = "find"
    /\ ~find_files(tool, layout).raised
    /\ files' = find_files(tool, layout).files
    /\ log' = IF find_files(tool, layout).files = << >>
              THEN Append(log, Note("no_files_found", << >>))
              ELSE log
    /\ mpc' = After(tool, "find")
    /\ UNCHANGED <<cmdline, exit_code, exclude_patterns, file_i, lpc, xpc>>
    /\ MainFrame

\* the extractor is called: process_ships starts at its loop over the files,
\* the others at the output folder
MainProcess ==
    /\ mpc = "process"
    /\ xpc = "idle"
    /\ files # << >>
    /\ xpc' = IF tool = "ships" THEN "files" ELSE "ensure"
    /\ file_i' = IF tool = "ships" THEN 1 ELSE file_i
    /\ UNCHANGED <<cmdline, exit_code, mpc, exclude_patterns, files, lpc, log>>
    /\ MainFrame

\* `if <files>:` fails: the faction and ship tools warn, the map tool goes on
MainNothingToProcess ==
    /\ mpc = "process"
    /\ xpc = "idle"
    /\ files = << >>
    /\ log' = IF tool \in {"factions", "ships"}
              THEN Append(log, Note("nothing_to_process", << >>))
              ELSE log
    /\ mpc' = "complete"
    /\ UNCHANGED <<cmdline, exit_code, exclude_patterns, files, file_i, lpc, xpc>>
    /\ MainFrame

\* the extractor has returned
MainProcessed ==
    /\ mpc = "process"
    /\ xpc = "returned"
    /\ mpc' = "complete"
    /\ UNCHANGED <<cmdline, exit_code, exclude_patterns, files, file_i, lpc, xpc, log>>
    /\ MainFrame

\* the extractor has raised
MainProcessRaises ==
    /\ mpc = "process"
    /\ xpc = "raised"
    /\ mpc' = "handler"
    /\ UNCHANGED <<cmdline, exit_code, exclude_patterns, files, file_i, lpc, xpc, log>>
    /\ MainFrame

\* logger.info("Processing complete"): main returns, the process ends
MainComplete ==
    /\ mpc = "complete"
    /\ exit_code' = 0
    /\ mpc' = "exited"
    /\ UNCHANGED <<cmdline, exclude_patterns, files, file_i, lpc, xpc, log>>
    /\ MainFrame

\* except Exception as e: logger.error(f"Error: {e}"); sys.exit(1)
MainHandler ==
    /\ mpc = "handler"
    /\ log' = Append(log, Note("main_error", << >>))
    /\ exit_code' = 1
    /\ mpc' = "exited"
    /\ UNCHANGED <<cmdline, exclude_patterns, files, file_i, lpc, xpc>>
    /\ MainFrame

\* one of the tools is started on a base folder
MainStart(tools) ==
    /\ tool \in tools
    /\ layout \in Layouts(tool)
    /\ catalog \in IF layout.loc /\ tool # "ships"
                   THEN MainCatalogs
                   ELSE {[ok |-> TRUE, pages |-> << >>]}
    /\ out_dir \in OutDirs
    /\ args \in MainArgs(tool)
    /\ cmdline = "none"
    /\ mpc = "args"
    /\ exit_code = -1
    /\ name_map = << >>
    /\ log = << >>
    /\ page_i = 0
    /\ t_i = 0
    /\ lpc = "idle"
    /\ files = << >>
    /\ exclude_patterns = << >>
    /\ file_i = 0
    /\ rec_i = 0
    /\ all_rows = << >>
    /\ csv = NoCsv
    /\ xpc = "idle"
    /\ ResolverIdle
    /\ PriceIdle

\* the steps of main itself
MainSteps ==
    \/ MainArgsRejected
    \/ MainArgsParsed
    \/ MainLocMissing
    \/ MainLocFound
    \/ MainLoad
    \/ MainLoaded
    \/ MainFindRaises
    \/ MainFound
    \/ MainProcess
    \/ MainProcessed
    \/ MainProcessRaises
    \/ MainComplete
    \/ MainHandler

\* the faction, map and ship tools
MainInit == MainStart(MainTools \ {"wares"})

MainNext ==
    \/ MainSteps
    \/ MainValidateRaises
    \/ MainValidated
    \/ MainNothingToProcess
    \/ LoadNext
    \/ ExtractNext
    \/ ShipsNext

MainSpec == MainInit /\ [][MainNext]_vars

\* the ware tool: its main neither validates the folder nor tests the list
WaresMainInit == MainStart({"wares"})

WaresMainNext ==
    \/ MainSteps
    \/ LoadNext
    \/ WaresNext

WaresMainSpec == WaresMainInit /\ [][WaresMainNext]_vars

(***************************************************************************)
(* Properties of the resolver                                              *)
(***************************************************************************)

PhaseRank(phase) ==
    CASE phase = "strip" -> 0
      [] phase = "for" -> 1
      [] phase = "sub" -> 2
      [] phase = "call" -> 3

\* what one call still has to do: passes left, characters left to scan in the
\* pass under way, position within the pass
Measure(f) ==
    << f.max_depth - f.depth,
       IF f.phase \in {"sub", "call"} THEN Len(f.current_text) - f.pos + 1 ELSE 0,
       PhaseRank(f.phase) >>

TripleLess(x, y) ==
    \/ x[1] < y[1]
    \/ x[1] = y[1] /\ x[2] < y[2]
    \/ x[1] = y[1] /\ x[2] = y[2] /\ x[3] < y[3]

\* lexicographic order, outermost call first; a proper prefix is smaller
SeqLess(a, b) ==
    \E i \in 1..Len(b) :
        /\ \A j \in 1..(i - 1) : j <= Len(a) /\ a[j] = b[j]
        /\ i > Len(a) \/ TripleLess(a[i], b[i])

Variant == [i \in 1..Len(stack) |-> Measure(stack[i])]

C1_Bounds ==
    /\ Len(stack) <= DefaultMaxDepth + 1
    /\ \A i \in 1..Len(stack) :
          /\ stack[i].depth >= 0
          /\ stack[i].depth <= stack[i].max_depth
          /\ stack[i].max_depth = 0 => stack[i].depth = 0
          /\ i > 1 => stack[i].max_depth = stack[i - 1].max_depth - 1
          /\ stack[i].phase \in {"sub", "call"} =>
                Len(stack[i].current_text) - stack[i].pos + 1 >= 0

\* C1: a top-level resolve_placeholders call terminates, for every text and
\* map (cyclic maps included): every call runs at most max_depth passes, a
\* nested call gets max_depth - 1, a call with max_depth 0 runs no pass, the
\* nesting of calls never exceeds max_depth + 1, and every step of the
\* resolver strictly decreases a well-founded measure of the call stack
\* (lexicographic over at most max_depth + 1 calls of <<passes left,
\* characters left to scan, phase>>).
C1_Terminates ==
    /\ [] C1_Bounds
    /\ [][SeqLess(Variant', Variant)]_vars

\* a run over a chain of ten references has ended, and its innermost call,
\* the eleventh, ran with max_depth 0: it made no pass and logged the warning
C1_Witness ==
    /\ done
    /\ \E i \in 1..Len(log) :
          log[i].kind = "max_depth" /\ log[i].level = DefaultMaxDepth + 1

(***************************************************************************)
(* The reference graph of a map, and what a text should resolve to         *)
(***************************************************************************)

RECURSIVE TokenKeysFrom(_, _)
\* keys of the tokens of s at or after position from
TokenKeysFrom(s, from) ==
    LET m == NextMatch(s, from) IN
    IF m = 0 THEN {}
    ELSE {KeyOf(s, m)} \cup TokenKeysFrom(s, MatchAt(s, m) + 1)

TokenKeys(s) == TokenKeysFrom(s, 1)

\* keys referenced by the value of k
Refs(k) == IF k \in DOMAIN name_map THEN TokenKeys(name_map[k]) ELSE {}

RECURSIVE ReachFrom(_, _)
ReachFrom(S, n) ==
    LET S2 == S \cup UNION {Refs(k) : k \in S} IN
    IF n = 0 \/ S2 = S THEN S ELSE ReachFrom(S2, n - 1)

\* keys reachable from the keys of S through values
Reach(S) == ReachFrom(S, Cardinality(DOMAIN name_map) + 1)

\* the value of k leads back to k
OnCycle(k) == k \in Reach(Refs(k))

RECURSIVE BracesOK(_, _)
\* from position from on, braces occur in s only as parts of complete tokens
BracesOK(s, from) ==
    LET m == NextMatch(s, from)
        lit == SubSeq(s, from, IF m = 0 THEN Len(s) ELSE m - 1)
    IN  /\ \A i \in 1..Len(lit) : lit[i] \notin {"{", "}"}
        /\ m # 0 => BracesOK(s, MatchAt(s, m) + 1)

WellFormed(s) == BracesOK(s, 1)

RECURSIVE NestDepth(_, _)
\* nesting depth of the references of s
NestDepth(s, fuel) ==
    LET K == TokenKeys(s) \cap DOMAIN name_map IN
    IF fuel = 0 \/ K = {} THEN 0
    ELSE LET ds == {NestDepth(name_map[k], fuel - 1) : k \in K}
         IN  1 + CHOOSE d \in ds : \A d2 \in ds : d2 <= d

RECURSIVE Expand(_, _)
RECURSIVE ExpandFrom(_, _, _)
\* s with every token replaced by the fully resolved value of its key, then
\* stripped of annotations
Expand(s, fuel) ==
    IF fuel = 0 THEN s ELSE StripAnnotations(ExpandFrom(s, 1, fuel))

ExpandFrom(s, from, fuel) ==
    LET m == NextMatch(s, from) IN
    IF m = 0 THEN SubSeq(s, from, Len(s))
    ELSE SubSeq(s, from, m - 1)
            \o Expand(Get(name_map, KeyOf(s, m)), fuel - 1)
            \o ExpandFrom(s, MatchAt(s, m) + 1, fuel)

Fuel == Cardinality(DOMAIN name_map) + 2

\* text is exactly one token, of key k
IsTokenOf(s, k) == MatchAt(s, 1) = Len(s) /\ s # << >> /\ KeyOf(s, 1) = k

Logged(kind) == \E i \in 1..Len(log) : log[i].kind = kind

K11 == Key(<<"1">>, <<"1">>)

K12 == Key(<<"1">>, <<"2">>)

K99 == Key(<<"9">>, <<"9">>)

T11 == Tok(<<"1">>, <<"1">>)

T12 == Tok(<<"1">>, <<"2">>)

T99 == Tok(<<"9">>, <<"9">>)

\* C2 (its last clause): when the value of a key leads back to that key, with
\* or without surrounding literal text, no call exhausts its pass limit while
\* a token of that key is resolved.
C2_CycleNeverExhausts ==
    (\E k \in DOMAIN name_map : IsTokenOf(text, k) /\ OnCycle(k))
        => ~Logged("max_depth")

\* every key reachable from the text is present, the reachable reference
\* graph is acyclic and its nesting depth is at most max_depth
C3_Pre ==
    LET R == Reach(TokenKeys(text)) IN
    /\ R \subseteq DOMAIN name_map
    /\ \A k \in R : ~OnCycle(k)
    /\ NestDepth(text, Fuel) <= DefaultMaxDepth

C3_Post ==
    /\ ~HasToken(result)
    /\ result = Expand(text, Fuel)

\* C3 as stated: when every reachable key is present and the reachable
\* reference graph is acyclic with nesting depth at most max_depth, the
\* returned text contains no reference token and each token of the input has
\* been replaced by the fully resolved value of its key.
C3_Original == (done /\ C3_Pre) => C3_Post

\* C3 (amended): the same, provided braces occur in the text and in every
\* reachable value only as parts of complete reference tokens (so that no
\* token is formed by joining pieces or by removing an annotation).
C3_NestedExpanded ==
    (/\ done
     /\ C3_Pre
     /\ WellFormed(text)
     /\ \A k \in Reach(TokenKeys(text)) : WellFormed(name_map[k]))
        => C3_Post

\* resolve('{1,1}') == 'Hello' for 1_1 -> '{1,2}', 1_2 -> 'Hello'
C3_Witness ==
    /\ done
    /\ text = T11
    /\ name_map = (K11 :> T12 @@ K12 :> Hello)
    /\ result = Hello
    /\ C3_Pre

\* C4: a token whose key is absent from the map is replaced by 'Unknown',
\* a missing-key warning is logged, no nested call is made, and the path is
\* left as it was before the token was visited; resolve('{9,9}') is
\* 'Unknown' when 9_9 is absent.
C4_MissingKey ==
    /\ [][ (/\ ~done
            /\ Top.phase = "sub"
            /\ NextMatch(Top.current_text, Top.pos) # 0
            /\ KeyOf(Top.current_text, NextMatch(Top.current_text, Top.pos))
                  \notin DOMAIN name_map)
           => LET f == Top
                  m == NextMatch(f.current_text, f.pos)
              IN  /\ Len(stack') = Len(stack)
                  /\ stack'[Len(stack)].phase = "sub"
                  /\ stack'[Len(stack)].new_text = Before(f, m) \o Unknown
                  /\ stack'[Len(stack)].pos = MatchAt(f.current_text, m) + 1
                  /\ log' = Append(log, Diag("missing", KeyOf(f.current_text, m)))
                  /\ processed_keys' = processed_keys
                  /\ ~InPath(KeyOf(f.current_text, m), processed_keys') ]_vars
    /\ [] ((done /\ text = T99 /\ K99 \notin DOMAIN name_map) => result = Unknown)

\* resolve('{9,9}') has returned 'Unknown' and logged the missing key
C4_Witness ==
    /\ done
    /\ text = T99
    /\ K99 \notin DOMAIN name_map
    /\ result = Unknown
    /\ log = <<[kind |-> "missing", arg |-> K99, level |-> 1]>>
    /\ processed_keys = << >>

RECURSIVE FirstOpen(_, _)
\* index of the first "(" at or after j, 0 when there is none
FirstOpen(s, j) ==
    IF j > Len(s) THEN 0
    ELSE IF s[j] = "(" THEN j
    ELSE FirstOpen(s, j + 1)

RECURSIVE SpaceStart(_, _)
\* start of the run of whitespace that ends just before position j
SpaceStart(s, j) ==
    IF j > 1 /\ IsSpace(s[j - 1]) THEN SpaceStart(s, j - 1) ELSE j

RECURSIVE RemoveAnnotations(_)
\* s with each "(" ... first following ")" removed together with the
\* whitespace directly before it
RemoveAnnotations(s) ==
    LET j == FirstOpen(s, 1)
        k == IF j = 0 THEN 0 ELSE FirstClose(s, j + 1)
    IN  IF k = 0 THEN s
        ELSE SubSeq(s, 1, SpaceStart(s, j) - 1)
                \o RemoveAnnotations(SubSeq(s, k + 1, Len(s)))

\* strip_parentheticals, as the specification describes it
StripParentheticals(s) ==
    LET t == RemoveAnnotations(s)
        first == CHOOSE i \in 1..(Len(t) + 1) :
                    /\ \A j \in 1..(i - 1) : IsSpace(t[j])
                    /\ i <= Len(t) => ~IsSpace(t[i])
        last == CHOOSE i \in 0..Len(t) :
                    /\ \A j \in (i + 1)..Len(t) : IsSpace(t[j])
                    /\ i >= 1 => ~IsSpace(t[i])
    IN  SubSeq(t, first, last)

NameExtraInfo ==
    <<"N", "a", "m", "e", " ", "(", "e", "x", "t", "r", "a", " ", "i", "n", "f", "o", ")">>

\* C5: for a text without reference token, resolve_placeholders(text, map)
\* is strip_parentheticals(text); the map is not consulted and no diagnostic
\* is emitted; resolve('Name (extra info)') is 'Name'.
C5_NoTokens ==
    /\ (done /\ ~HasToken(text)) =>
          /\ result = StripParentheticals(text)
          /\ lookups = 0
          /\ log = << >>
    /\ (done /\ text = NameExtraInfo) => result = <<"N", "a", "m", "e">>

\* a text with two annotations and a stray ")" has been resolved
C5_Witness ==
    /\ done
    /\ text = <<"a", " ", "(", "b", ")", " ", "c", ")", " ", "d">>
    /\ result = <<"a", " ", "c", ")", " ", "d">>
    /\ lookups = 0

\* keys of the replacers that wait for a nested call to return
Enclosing == {stack[i].key : i \in 2..Len(stack)}

\* C6: the path is scoped to the active call stack: a token is treated as a
\* cycle exactly when its key is being expanded by an enclosing call; with an
\* acyclic map (braces only in complete tokens) no occurrence of a key, however
\* often it occurs in sibling tokens, is reported as a cycle;
\* resolve('{1,1} {1,1}') is 'Hello Hello' for 1_1 -> 'Hello'.
C6_PathScoped ==
    /\ (/\ ~done
        /\ Top.phase = "sub"
        /\ NextMatch(Top.current_text, Top.pos) # 0)
          => LET key == KeyOf(Top.current_text, NextMatch(Top.current_text, Top.pos))
             IN  InPath(key, processed_keys) <=> key \in Enclosing
    /\ Logged("circular")
          => ~(/\ WellFormed(text)
               /\ \A k \in DOMAIN name_map : WellFormed(name_map[k]) /\ ~OnCycle(k))
    /\ (done /\ text = T11 \o <<" ">> \o T11 /\ K11 \in DOMAIN name_map
             /\ name_map[K11] = Hello)
          => result = Hello \o <<" ">> \o Hello

\* two sibling tokens of one key, whose value references a second key, have
\* both been expanded
C6_Witness ==
    /\ done
    /\ text = T11 \o T11
    /\ name_map = (K11 :> T12 @@ K12 :> Hello)
    /\ result = Hello \o Hello
    /\ log = << >>

\* C7: the 'max recursion depth reached' diagnostic is emitted by a call
\* exactly when its pass limit is reached while its text still contains
\* reference tokens: a call that leaves its loop logs the diagnostic if and
\* only if it has made max_depth passes and its current text has a token.
C7_TruncationExact ==
    [][ (/\ ~done
         /\ Top.phase \in {"for", "sub"}
         /\ Len(stack') = Len(stack)
         /\ stack'[Len(stack)].phase = "strip")
        => ((log' # log) <=>
               (/\ Top.depth = Top.max_depth
                /\ HasToken(stack'[Len(stack)].current_text))) ]_vars

Clean(s) ==
    /\ s # << >> => ~IsSpace(s[1]) /\ ~IsSpace(s[Len(s)])
    /\ ~\E i, j \in 1..Len(s) : i < j /\ s[i] = "(" /\ s[j] = ")"

\* C8: the string returned by resolve_placeholders (by the top-level call and
\* by every nested call) has no leading or trailing whitespace and no "("
\* that is followed later by a ")".
C8_NoAnnotations == Clean(result)

\* '{1,1}{1,2} ' with 1_1 -> '(' and 1_2 -> ')': the annotation is formed by
\* joining two expanded values
C8_Witness ==
    /\ done
    /\ text = T11 \o T12
    /\ name_map = (K11 :> <<"(">> @@ K12 :> <<")">>)
    /\ result = << >>

(***************************************************************************)
(* Properties of load_localization                                         *)
(***************************************************************************)

HasId(x) == ~Falsy(x.id)

\* the positions <<page, t>> of the entries that have an id inside a page that has one
Identified ==
    {<<p, t>> \in (1..Len(catalog.pages)) \X (1..MaxItems + 1) :
        /\ t <= Len(catalog.pages[p].entries)
        /\ HasId(catalog.pages[p])
        /\ HasId(catalog.pages[p].entries[t])}

KeyAt(o) == Key(catalog.pages[o[1]].id, catalog.pages[o[1]].entries[o[2]].id)

\* document order of two positions
Later(a, b) == a[1] > b[1] \/ (a[1] = b[1] /\ a[2] > b[2])

LastOf(k) ==
    CHOOSE o \in Identified :
        /\ KeyAt(o) = k
        /\ \A q \in Identified : KeyAt(q) = k => ~Later(q, o)

\* the payload of an entry, the empty string when it is absent
PayloadAt(o) ==
    LET x == catalog.pages[o[1]].entries[o[2]].text
    IN  IF x = None THEN << >> ELSE x

Loaded == lpc = "returned" /\ catalog.ok

\* C9: in every tool, the map loaded from a well-formed catalog has exactly
\* the keys page_id + '_' + t_id of the entries with an id inside a page
\* with an id, each value is the payload of the last such entry in document
\* order, the empty string when the payload is absent, and never None.
C9_LoaderContract ==
    Loaded =>
        /\ DOMAIN name_map = {KeyAt(o) : o \in Identified}
        /\ \A k \in DOMAIN name_map :
              /\ name_map[k] # None
              /\ name_map[k] = PayloadAt(LastOf(k))

(***************************************************************************)
(* Properties of the faction and map-sector extractors                     *)
(***************************************************************************)

\* the positions <<file, element>> of the records of the files that parse
Records ==
    {p \in (1..Len(files)) \X (1..MaxElements) :
        files[p[1]].ok /\ p[2] <= Len(files[p[1]].records)}

RecordAt(p) == files[p[1]].records[p[2]]

\* what identifies a record in the output: its id or macro
IdentOf(p) ==
    IF tool = "factions" THEN Strip(Attr(RecordAt(p).id))
    ELSE Strip(Attr(RecordAt(p).macro))

\* the macro string the patterns are matched against
MacroOf(p) ==
    IF tool = "factions" THEN <<"i", "d", "_">> \o IdentOf(p) ELSE IdentOf(p)

\* the literal of a pattern, without its start anchor
Literal(pattern) ==
    IF pattern # << >> /\ pattern[1] = "^" THEN Tail(pattern) ELSE pattern

\* the pattern matches at the start of the macro
MatchesAtStart(pattern, macro) ==
    LET lit == Literal(pattern)
    IN  /\ \A i \in 1..Len(lit) : lit[i] # "^"
        /\ Len(lit) <= Len(macro)
        /\ SubSeq(macro, 1, Len(lit)) = lit

PatternMatches(p) ==
    \E i \in 1..Len(exclude_patterns) :
        MatchesAtStart(exclude_patterns[i], MacroOf(p))

\* the record has the fields the extractor requires
Complete(p) ==
    IF tool = "factions" THEN IdentOf(p) # << >>
    ELSE /\ ~Falsy(RecordAt(p).macro)
         /\ RecordAt(p).identification.present
         /\ ~Falsy(RecordAt(p).identification.name)

\* id or macro, and source, of a record and of a row of the output file
RecordKey(p) == <<IdentOf(p), files[p[1]].source>>

RowKey(cells) ==
    IF tool = "factions" THEN <<cells[1], cells[8]>> ELSE <<cells[1], cells[3]>>

RowsWith(key) == Cardinality({i \in 1..Len(csv.rows) : RowKey(csv.rows[i]) = key})

Written == xpc = "returned" /\ csv.written

\* the output holds, for every id or macro and source, as many rows as
\* there are records in S with them
OutputIs(S) ==
    /\ \A p \in Records : RowsWith(RecordKey(p)) =
                              Cardinality({q \in S : RecordKey(q) = RecordKey(p)})
    /\ \A i \in 1..Len(csv.rows) : \E p \in S : RecordKey(p) = RowKey(csv.rows[i])

\* the record has an id (faction) or a macro (dataset)
HasMacro(p) == IdentOf(p) # << >>

\* C10 as stated: in the output file of the faction and of the map-sector
\* extractor a record (an element with an id or a macro) is omitted if and
\* only if an exclusion pattern matches at the start of its macro.
C10_Original ==
    Written => OutputIs({p \in Records : HasMacro(p) /\ ~PatternMatches(p)})

\* C10: in the output file of the faction and of the map-sector extractor a
\* record that has the fields the extractor requires is omitted if and only
\* if an exclusion pattern matches at the start of its macro ('id_' + id
\* for factions), whatever the other records are; records lacking these
\* fields are omitted; with pattern '^demo_' no row has the macro
\* 'demo_alpha'.
C10_ExclusionByPattern ==
    Written =>
        /\ OutputIs({p \in Records : Complete(p) /\ ~PatternMatches(p)})
        /\ (\E i \in 1..Len(exclude_patterns) :
                exclude_patterns[i] = <<"^", "d", "e", "m", "o", "_">>)
            => \A p \in Records :
                   MacroOf(p) = demo_alpha => RowsWith(RecordKey(p)) = 0

\* the map-sector output is written with pattern '^demo_' in force: a
\* complete record 'demo_alpha' of one file is omitted and a record
\* 'alpha_demo' of another file is retained
C10_Witness ==
    /\ Written
    /\ tool = "map"
    /\ \E i \in 1..Len(exclude_patterns) :
           exclude_patterns[i] = <<"^", "d", "e", "m", "o", "_">>
    /\ \E p, q \in Records :
           /\ p[1] # q[1]
           /\ Complete(p) /\ MacroOf(p) = demo_alpha
           /\ RowsWith(RecordKey(p)) = 0
           /\ Complete(q) /\ MacroOf(q) = alpha_demo
           /\ RowsWith(RecordKey(q)) = 1

(***************************************************************************)
(* Properties of extract_cluster_sector and of the order of the sector     *)
(* rows                                                                    *)
(***************************************************************************)

\* the maximal runs of digits of s, as pairs <<first, last>> of positions
RunsOf(s) ==
    {r \in (1..Len(s)) \X (1..Len(s)) :
        /\ r[1] <= r[2]
        /\ \A i \in r[1]..r[2] : IsDigit(s[i])
        /\ r[1] = 1 \/ ~IsDigit(s[r[1] - 1])
        /\ r[2] = Len(s) \/ ~IsDigit(s[r[2] + 1])}

\* the k-th run of s from the left
RunNo(s, k) ==
    CHOOSE r \in RunsOf(s) : Cardinality({q \in RunsOf(s) : q[1] < r[1]}) = k - 1

RECURSIVE Power10(_)

Power10(n) == IF n = 0 THEN 1 ELSE 10 * Power10(n - 1)

RECURSIVE SumOver(_, _, _)
\* the sum of digit * 10^(distance to the end of the run) over positions i..b
SumOver(s, i, b) ==
    IF i > b THEN 0
    ELSE (CHOOSE d \in 0..9 : DigitStr(d) = <<s[i]>>) * Power10(b - i)
             + SumOver(s, i + 1, b)

\* the integer a run of digits denotes
RunValue(s, r) == SumOver(s, r[1], r[2])

\* cluster id, sector id and type as the claim gives them for a macro
ClusterKey(macro) ==
    LET n == Cardinality(RunsOf(macro))
    IN  IF n >= 2
        THEN <<RunValue(macro, RunNo(macro, 1)), RunValue(macro, RunNo(macro, 2)), "sector">>
        ELSE IF n = 1 THEN <<RunValue(macro, RunNo(macro, 1)), 0, "cluster">>
        ELSE <<0, 0, "unknown">>

KeyLess(a, b) == a[1] < b[1] \/ (a[1] = b[1] /\ a[2] < b[2])

\* the records that give a row, in extraction order
RECURSIVE InOrder(_)

InOrder(S) ==
    IF S = {} THEN << >>
    ELSE LET first == CHOOSE p \in S : \A q \in S : ~Later(p, q)
         IN  <<first>> \o InOrder(S \ {first})

Extracted == InOrder({p \in Records : Complete(p) /\ ~PatternMatches(p)})

\* the <<macro, source>> pairs of the rows with the sort key k, in row order
RowsOfKey(k) ==
    LET Is(cells) == ClusterKey(cells[1])[1] = k[1] /\ ClusterKey(cells[1])[2] = k[2]
        sel == SelectSeq(csv.rows, Is)
    IN  [i \in 1..Len(sel) |-> <<sel[i][1], sel[i][3]>>]

\* the same for the extracted records, in extraction order
RecordsOfKey(k) ==
    LET Is(p) == ClusterKey(IdentOf(p))[1] = k[1] /\ ClusterKey(IdentOf(p))[2] = k[2]
        sel == SelectSeq(Extracted, Is)
    IN  [i \in 1..Len(sel) |-> RecordKey(sel[i])]

MapWritten == Written /\ tool = "map"

MaxMacroLen == 4

\* the macro strings of up to MaxMacroLen characters over letters and digits
MacroStrings == Concats({<<"c">>, <<"_">>, <<"0">>, <<"1">>, <<"7">>}, MaxMacroLen)

\* extract_cluster_sector gives what the claim says, for every macro string
ClusterSectorOfAll ==
    \A m \in MacroStrings :
        LET ecs == extract_cluster_sector(m)
        IN  <<ecs.cluster_id, ecs.sector_id, ecs.type>> = ClusterKey(m)

\* C12: for every macro string extract_cluster_sector returns the value of
\* the first run of digits, the value of the second run (0 when there is
\* one run only) and the type; every row of the sector CSV has the type
\* that the number of digit runs of its macro gives (two or more: sector,
\* one: cluster, none: unknown); the rows of all files together are in ascending order of
\* (value of the first run, value of the second run or 0), and the rows of
\* equal key are in extraction order.
C12_ClusterSectorOrder ==
    /\ (xpc = "ensure" /\ files = << >>) => ClusterSectorOfAll
    /\ MapWritten =>
        /\ \A i \in 1..Len(csv.rows) :
               csv.rows[i][4] = ClusterKey(csv.rows[i][1])[3]
        /\ \A i, j \in 1..Len(csv.rows) :
               i < j => ~KeyLess(ClusterKey(csv.rows[j][1]), ClusterKey(csv.rows[i][1]))
        /\ Len(csv.rows) = Len(Extracted)
        /\ \A p \in Records :
               RowsOfKey(ClusterKey(IdentOf(p))) = RecordsOfKey(ClusterKey(IdentOf(p)))

\* a written sector CSV whose rows are not in extraction order: cluster 10 of
\* the original file is extracted before cluster 2 of an extension ('10' is
\* less than '2' as text) and is written after it
C12_Witness ==
    /\ MapWritten
    /\ Len(Extracted) = 2
    /\ ClusterKey(IdentOf(Extracted[1]))[1] = 10
    /\ ClusterKey(IdentOf(Extracted[2])) = <<2, 1, "sector">>
    /\ Extracted[1][1] # Extracted[2][1]
    /\ csv.rows[1][3] # "original"
    /\ csv.rows[2][3] = "original"

(***************************************************************************)
(* C19: the resolution path                                                *)
(***************************************************************************)

\* keys of the replacers that wait for a nested call, outermost first
ActiveKeys == [i \in 1..(Len(stack) - 1) |-> stack[i + 1].key]

NoRepeat(path) == \A i, j \in 1..Len(path) : i # j => path[i] # path[j]

\* the path in every state
PathState ==
    /\ processed_keys = ActiveKeys
    /\ NoRepeat(processed_keys)
    /\ Len(processed_keys) <= DefaultMaxDepth
    /\ ~done => Len(processed_keys) + Top.max_depth = DefaultMaxDepth
    /\ done => processed_keys = << >>

\* the path and the map across every step: the path changes only by the push
\* of a key when a nested call is made and by the pop of that key when the
\* call returns; the cycle and the missing-key exits leave it as it was
PathStep ==
    /\ name_map' = name_map
    /\ Len(stack') = Len(stack) + 1
          => /\ Len(processed_keys') = Len(processed_keys) + 1
             /\ Pop(processed_keys') = processed_keys
             /\ processed_keys'[Len(processed_keys')] = stack'[Len(stack')].key
    /\ (Len(stack') = Len(stack) - 1 /\ ~done')
          => processed_keys' = Pop(processed_keys)
    /\ (Len(stack') = Len(stack) \/ done') => processed_keys' = processed_keys

\* C19: every top-level call starts with an empty path; in every state the
\* path equals, in order, the keys of the enclosing expansions still active,
\* so it never holds a key twice and is never longer than max_depth; every
\* push is matched by one pop on each exit of the replacer (cycle, missing
\* key, success); the path is empty when the top-level call returns; the
\* localization map is not modified.
C19_PathInvariant == [](PathState) /\ [][PathStep]_vars

\* a chain of references has driven the path to max_depth keys (the call made
\* with max_depth 0 is the one that logs at level max_depth + 1), and the
\* top-level call has returned with the path empty again
C19_Witness ==
    /\ done
    /\ processed_keys = << >>
    /\ \E i \in 1..Len(log) :
          log[i].kind = "max_depth" /\ log[i].level = DefaultMaxDepth + 1

(***************************************************************************)
(* C20: one strip after the expansion                                      *)
(***************************************************************************)

RECURSIVE RawExpandFrom(_, _, _)
\* s from position from on, with every token replaced by the fully expanded
\* raw value of its key; nothing is stripped or trimmed on the way
RawExpandFrom(s, from, fuel) ==
    LET m == NextMatch(s, from) IN
    IF m = 0 THEN SubSeq(s, from, Len(s))
    ELSE SubSeq(s, from, m - 1)
            \o (IF fuel = 0 THEN SubSeq(s, m, MatchAt(s, m))
                ELSE RawExpandFrom(Get(name_map, KeyOf(s, m)), 1, fuel - 1))
            \o RawExpandFrom(s, MatchAt(s, m) + 1, fuel)

\* the fully expanded text
RawExpand(s) == RawExpandFrom(s, 1, Fuel)

\* all referenced keys are present, the reference graph is acyclic and no
\* deeper than max_depth, and braces occur only in complete tokens
Expandable ==
    /\ C3_Pre
    /\ WellFormed(text)
    /\ \A k \in Reach(TokenKeys(text)) : WellFormed(name_map[k])

\* C20: for every text and every acyclic map in which all referenced keys are
\* present, resolve_placeholders(text, map) equals strip_parentheticals
\* applied once to the fully expanded text, the raw values being inserted
\* without any stripping or trimming of intermediate values.
C20_SingleStrip ==
    (done /\ Expandable) => result = StripParentheticals(RawExpand(text))

(***************************************************************************)
(* C11: price bands                                                        *)
(***************************************************************************)

\* the two prices as numbers
MinPrice == Float(min_price)

MaxPrice == Float(max_price)

\* avg - p% * half_range and avg + p% * half_range before they are clamped
RawLow(p) ==
    FSub(ranges["avg"], FMul(Hundredths(p), FHalf(FSub(MaxPrice, MinPrice))))

RawHigh(p) ==
    FAdd(ranges["avg"], FMul(Hundredths(p), FHalf(FSub(MaxPrice, MinPrice))))

Within(x) == MinPrice <= x /\ x <= MaxPrice

\* the call has returned for two numbers 0 <= min <= max
PricesReturned ==
    /\ ppc = "returned"
    /\ ~IsInf(MinPrice) /\ ~IsInf(MaxPrice)
    /\ 0 <= MinPrice /\ MinPrice <= MaxPrice

BandsWithin == \A k \in RangeKeys : Within(ranges[k])

BandsNested ==
    /\ ranges["70_min"] <= ranges["50_min"]
    /\ ranges["50_min"] <= ranges["30_min"]
    /\ ranges["30_min"] <= ranges["avg"]
    /\ ranges["avg"] <= ranges["30_max"]
    /\ ranges["30_max"] <= ranges["50_max"]
    /\ ranges["50_max"] <= ranges["70_max"]

NeverClamped == \A p \in {30, 50, 70} : Within(RawLow(p)) /\ Within(RawHigh(p))

\* avg is the number nearest to (min + max) / 2
AvgIsMean == ranges["avg"] = FRound(MinPrice + MaxPrice, 2)

\* for min = 10 and max = 20 the bands are [13.5, 16.5], [12.5, 17.5] and
\* [11.5, 18.5]
TenTwenty ==
    (min_price = <<"1", "0">> /\ max_price = <<"2", "0">>)
        => /\ 2 * ranges["avg"] = 30 * One
           /\ 2 * ranges["30_min"] = 27 * One /\ 2 * ranges["30_max"] = 33 * One
           /\ 2 * ranges["50_min"] = 25 * One /\ 2 * ranges["50_max"] = 35 * One
           /\ 2 * ranges["70_min"] = 23 * One /\ 2 * ranges["70_max"] = 37 * One

\* C11: for all numbers 0 <= min <= max, calculate_price_ranges returns
\* avg = (min + max) / 2 and, for p in {30, 50, 70}, avg -/+ p% * half_range
\* clamped into [min, max]; every returned value lies in [min, max], the bands
\* are nested around avg, and clamping is never triggered.
C11_PriceBands ==
    PricesReturned
        => AvgIsMean /\ BandsWithin /\ BandsNested /\ NeverClamped /\ TenTwenty

(***************************************************************************)
(* C13: names in the ware table                                            *)
(***************************************************************************)

\* the name the Resolver yields for the catalog text a ware refers to
ResolvedWareName(w) ==
    IF WareRef(w) \in DOMAIN name_map
    THEN Resolved(CsvCell(name_map[WareRef(w)])).out
    ELSE Unknown

\* a step of the ware extractor writes a row
RowWritten == tool = "wares" /\ xpc = "records" /\ csv'.rows # csv.rows

\* C13: every name written goes through the Resolver; a ware row is written
\* only for a ware that is no module, whose transport is container, liquid
\* or solid, and that has a price element and a parseable name reference,
\* and its name column holds the resolved text of the referenced key (or
\* 'Unknown' when the key is missing), never the raw catalog value.
C13_WareNameResolved ==
    [][ RowWritten =>
          /\ ~IsModule(CurRec)
          /\ CurRec.transport \in VALID_TRANSPORT
          /\ CurRec.price.present
          /\ WareRef(CurRec) # None
          /\ csv'.rows[Len(csv'.rows)][1] = ResolvedWareName(CurRec) ]_vars

(***************************************************************************)
(* C16: a source file that cannot be parsed                                *)
(***************************************************************************)

\* the extractor is about to parse a file that is not well-formed
AtMalformedFile == xpc = "files" /\ file_i <= Len(files) /\ ~CurFile.ok

\* the failure is logged and the loop goes on to the next file; nothing is
\* added to the rows and the function does not raise
SkippedAndLogged ==
    /\ xpc' = "files"
    /\ file_i' = file_i + 1
    /\ Len(log') = Len(log) + 1
    /\ log'[Len(log')].kind = "parse_error"
    /\ all_rows' = all_rows
    /\ csv' = csv

\* C16: in every tool, when a discovered source file cannot be opened or
\* parsed, the failure is caught and logged, the file contributes no rows,
\* the remaining files are still processed and the run goes on without a
\* fatal error.
C16_FileTolerance == [][AtMalformedFile => SkippedAndLogged]_vars

(***************************************************************************)
(* C17: the output directory                                               *)
(***************************************************************************)

\* the extractor has returned or raised
Terminal == xpc \in {"returned", "raised"}

\* the run has extracted records to write
HasRecords == all_rows # << >> \/ csv.rows # << >>

NoteLogged(kind) == \E i \in 1..Len(log) : log[i].kind = kind

\* C17: in every tool, an output directory that does not exist when the
\* records are to be written is created before the CSV is opened, so a run
\* with extractable records and a creatable output directory ends with the
\* CSV written there; only when the creation fails is the error logged and
\* the output abandoned.
C17_OutputDirCreated ==
    (Terminal /\ HasRecords)
        => /\ out_dir # "creatable"
           /\ out_dir = "exists" => csv.written
           /\ out_dir = "uncreatable" => ~csv.written /\ NoteLogged("mkdir_error")

(***************************************************************************)
(* C14: the dynamic columns of the ship table                              *)
(***************************************************************************)

\* the maximal runs of characters of class C in s
RunsIn(s, C(_)) ==
    {SubSeq(s, b, e) : <<b, e>> \in
        {x \in (1..Len(s)) \X (1..Len(s)) :
            /\ x[1] <= x[2]
            /\ \A k \in x[1]..x[2] : C(s[k])
            /\ x[1] > 1 => ~C(s[x[1] - 1])
            /\ x[2] < Len(s) => ~C(s[x[2] + 1])}}

NonSpace(c) == ~IsSpace(c)

\* the ship elements with an id, in the order they are read
Identified_Ships == InOrder({p \in Records : ShipId(RecordAt(p)) # << >>})

\* the faction and tag attributes of the category of a ship element
FactionAttr(p) == Attr(RecordAt(p).category.faction)

TagsAttr(p) == Attr(RecordAt(p).category.tags)

ShipsWritten == tool = "ships" /\ xpc = "returned" /\ csv.written

\* the columns after the four fixed ones
DynamicColumns == SubSeq(csv.header, Len(FixedColumns) + 1, Len(csv.header))

Increasing(cols) == \A i, j \in 1..Len(cols) : i < j => StrLess(cols[i], cols[j])

\* the table has the columns named by factionCols and tagCols, and each
\* row of a ship has 'TRUE' exactly in the columns of its own tokens
TableOf(ships, factionTokens(_), tagTokens(_)) ==
    LET fcols == {EncloseFaction(f) : f \in UNION {factionTokens(p) : p \in ships}}
        tcols == {EncloseTag(t) : t \in UNION {tagTokens(p) : p \in ships}}
        nf == Cardinality(fcols)
        nt == Cardinality(tcols)
        fs == SubSeq(DynamicColumns, 1, nf)
        ts == SubSeq(DynamicColumns, nf + 1, Len(DynamicColumns))
    IN  /\ SubSeq(csv.header, 1, Len(FixedColumns)) = FixedColumns
        /\ Len(DynamicColumns) = nf + nt
        /\ {fs[i] : i \in 1..Len(fs)} = fcols /\ Increasing(fs)
        /\ {ts[i] : i \in 1..Len(ts)} = tcols /\ Increasing(ts)
        /\ Len(csv.rows) = Len(Identified_Ships)
        /\ \A i \in 1..Len(csv.rows) :
              LET row == csv.rows[i]
                  p == Identified_Ships[i]
              IN  /\ Len(row) = Len(csv.header)
                  /\ row[1] = ShipId(RecordAt(p))
                  /\ \A j \in 1..nf :
                        row[Len(FixedColumns) + j] =
                            IF \E f \in factionTokens(p) : EncloseFaction(f) = fs[j]
                            THEN TrueCell ELSE FalseCell
                  /\ \A j \in 1..nt :
                        row[Len(FixedColumns) + nf + j] =
                            IF \E t \in tagTokens(p) : EncloseTag(t) = ts[j]
                            THEN TrueCell ELSE FalseCell

WsFactions(p) == RunsIn(FactionAttr(p), NonSpace)

WsTags(p) == RunsIn(TagsAttr(p), NonSpace)

WordFactions(p) == RunsIn(FactionAttr(p), IsWord)

WordTags(p) == RunsIn(TagsAttr(p), IsWord)

FindStep == mpc = "find" /\ mpc' # "find"

\* the entries of os.listdir that are directories holding libraries/<file>.xml
ExtensionsWithFile ==
    {j \in 1..Len(layout.extensions.entries) :
        /\ layout.extensions.entries[j].kind = "dir"
        /\ layout.extensions.entries[j].target.present}

\* the sources the claim lists: 'original' when the file exists, and the name
\* of every extension directory that holds the file
ExpectedSources ==
    (IF layout.original.present THEN {"original"} ELSE {})
        \cup {ExtensionName(j) : j \in ExtensionsWithFile}

\* the file the path of a source leads to
FileOfSource(source) ==
    IF source = "original" THEN layout.original
    ELSE layout.extensions.entries[
             CHOOSE j \in ExtensionsWithFile : ExtensionName(j) = source].target

\* the list `fs` holds exactly one pair per expected source and nothing else
ListsExpected(fs) ==
    /\ {fs[i].source : i \in 1..Len(fs)} = ExpectedSources
    /\ Len(fs) = Cardinality(ExpectedSources)
    /\ \A i \in 1..Len(fs) :
          /\ fs[i].ok = FileOfSource(fs[i].source).ok
          /\ fs[i].records = FileOfSource(fs[i].source).records

\* C15: for every directory layout, find_*_files returns the pair
\* ('original', <base>/libraries/<file>.xml) whenever that file exists, plus
\* exactly one pair (directory name, path) for each directory under
\* <base>/extensions that contains libraries/<file>.xml, and no other entry.
C15_Discovery == [][FindStep => (mpc' # "handler" /\ ListsExpected(files'))]_vars

\* the same for the layouts where <base>/extensions is absent or a directory
\* and, in the ware tool, at least one file exists
C15_WhenListable ==
    [][(FindStep /\ layout.extensions.kind # "file"
                 /\ (tool = "wares" => ExpectedSources # {}))
          => (mpc' # "handler" /\ ListsExpected(files'))]_vars

\* whenever the call raises, <base>/extensions is a regular file or the ware
\* tool found nothing
C15_RaisesOnlyThen ==
    [][(FindStep /\ mpc' = "handler")
          => (layout.extensions.kind = "file"
                 \/ (tool = "wares" /\ ExpectedSources = {}))]_vars

(***************************************************************************)
(* Properties of the exit status                                           *)
(***************************************************************************)

\* the process has ended
Exited == mpc = "exited"

\* the except clause of main has logged the error
HandlerReached == \E i \in 1..Len(log) : log[i].kind = "main_error"

\* a ware of the file makes float() raise
WareFatal(f) ==
    \E i \in 1..Len(f.records) :
        WarePriced(f.records[i]) /\ ~WareNumeric(f.records[i])

\* process_all_wares raises on the files found: open() fails, or a file is
\* malformed or holds a priced ware whose price is no number
WaresFatal(fs) ==
    \/ out_dir = "unwritable"
    \/ /\ out_dir \in {"exists", "creatable"}
       /\ \E i \in 1..Len(fs) : ~fs[i].ok \/ WareFatal(fs[i])

\* the inputs with which an exception reaches the except clause of main
FatalInput ==
    CASE tool = "factions" ->
             ~layout.libraries \/ ~layout.loc \/ layout.extensions.kind = "file"
      [] tool = "ships" -> ~layout.libraries \/ layout.extensions.kind = "file"
      [] tool = "map" ->
             \/ ~layout.libraries \/ ~layout.t \/ ~layout.loc
             \/ layout.extensions.kind = "file"
             \/ ExpectedSources # {} /\ out_dir = "unwritable"
      [] tool = "wares" ->
             \/ layout.extensions.kind = "file" \/ ExpectedSources = {}
             \/ ~layout.loc
             \/ WaresFatal(find_files(tool, layout).files)

=============================================================================
